---- MODULE Spec2Model ----
(***************************************************************************)
(* Tile job lifecycle of the pyrolysis_aws pipeline: the TileJobs row of   *)
(* one (run_id, tile_id), the Runs counters of its run, and the workers    *)
(* that run process_tile on deliveries of the tile's queue message.        *)
(* Every store call (DynamoDB update_item / get_item) is one atomic step;  *)
(* a worker can be pre-empted between any two of its store or collaborator *)
(* calls, can halt abruptly, and every call can raise.                     *)
(***************************************************************************)
EXTENDS Integers, Sequences, FiniteSets, TLC

\* ---------------------------------------------------------------- bounds
Workers == {"w1", "w2"}
\* last value of the wall clock (int(time.time()))
MaxTime == 2
\* model value of config.job_stale_lock_seconds (lock_seconds of claim_job)
LockSeconds == 1
\* number of deliveries (first delivery, redeliveries, duplicates) of the message
MaxDeliveries == 3

\* ------------------------------------------------------ program constants
MIN_REMAINING_MS_FOR_OPENAI == 20000
DEFAULT_GOOGLE_ZOOM == 18
COORD_TILE_ID_PRECISION == 6

\* a missing attribute / a None
None == 0 - 1

\* remaining_time_ms handed to process_tile: None, just below and at the threshold
RemainingChoices == {None, MIN_REMAINING_MS_FOR_OPENAI - 1, MIN_REMAINING_MS_FOR_OPENAI}

\* milliseconds that went by between the handler's reading of the remaining
\* time and the budget check of process_tile (claim, fetch, upload lie between)
ElapsedChoices == {0, 1}

\* ------------------------------------------------------- the queue message
\* a field that is not in the body (or is null)
Absent == 0 - 999

\* Field(ge, le) limits of TileJobMessage
ZOOM_MAX == 22
LAT_MAX == 90
LON_MAX == 180

\* bodies: text that is not JSON, and JSON objects with run_id and source
\* present or not, any imagery_source, and coordinates absent, at and
\* beyond their limits
Bodies ==
    [json : {TRUE}, has_run_source : BOOLEAN,
     imagery_source : {"mapbox", "google", "bing"},
     z : {Absent, 0 - 1, 0, ZOOM_MAX, ZOOM_MAX + 1},
     x : {Absent, 0 - 1, 0},
     y : {Absent, 0 - 1, 0},
     lat : {Absent, (0 - LAT_MAX) - 1, LAT_MAX},
     lon : {Absent, 0 - LON_MAX, LON_MAX + 1},
     zoom : {Absent, ZOOM_MAX, ZOOM_MAX + 1}]
    \cup
    {[json |-> FALSE, has_run_source |-> FALSE, imagery_source |-> "mapbox",
      z |-> Absent, x |-> Absent, y |-> Absent,
      lat |-> Absent, lon |-> Absent, zoom |-> Absent]}

\* the message of the tile whose row the lifecycle follows
TileMessage ==
    [json |-> TRUE, has_run_source |-> TRUE, imagery_source |-> "mapbox",
     z |-> 0, x |-> 0, y |-> 0, lat |-> Absent, lon |-> Absent, zoom |-> Absent]

\* an optional field is absent or within [lo, hi]
InRange(v, lo, hi) == v = Absent \/ (lo <= v /\ v <= hi)

\* an optional field is absent or at least lo
AtLeast(v, lo) == v = Absent \/ lo <= v

\* TileJobMessage: the declared fields and their Field constraints
FieldsOk(m) ==
    /\ m.has_run_source
    /\ m.imagery_source \in {"mapbox", "google"}
    /\ InRange(m.z, 0, ZOOM_MAX)
    /\ AtLeast(m.x, 0)
    /\ AtLeast(m.y, 0)
    /\ InRange(m.lat, 0 - LAT_MAX, LAT_MAX)
    /\ InRange(m.lon, 0 - LON_MAX, LON_MAX)
    /\ InRange(m.zoom, 0, ZOOM_MAX)

\* mutant: only the mapbox fields are required
SourceSpecificFields_MapboxOnly(m) ==
    IF m.imagery_source = "mapbox"
    THEN m.z # Absent /\ m.x # Absent /\ m.y # Absent
    ELSE TRUE

\* TileJobMessage._validate_source_specific_fields
SourceSpecificFields(m) ==
    IF m.imagery_source = "mapbox"
    THEN m.z # Absent /\ m.x # Absent /\ m.y # Absent
    ELSE m.lat # Absent /\ m.lon # Absent

\* _async_handler: json.loads, then TileJobMessage.model_validate
ParseBody(m) ==
    IF ~m.json THEN "JSONDecodeError"
    ELSE IF ~(FieldsOk(m) /\ SourceSpecificFields(m)) THEN "ValidationError"
    ELSE "ok"

\* claim_job sends the coordinates of the message as N values; the store takes
\* the update only if every N value is a number: str(zoom) of a google message
\* without zoom is "None" and the call fails with a ValidationException (a
\* ClientError that claim_job re-raises)
NumbersOk(m) == m.imagery_source = "mapbox" \/ m.zoom # Absent

VARIABLES
    now,        \* wall clock, seconds
    job,        \* the TileJobs item of (run_id, tile_id)
    run,        \* the Runs item: completed_tiles, failed_tiles
    pc,         \* per worker: the call of process_tile it is about to make
    lv,         \* per worker: locals of the current invocation
    deliveries, \* number of deliveries made so far
    claims,     \* history: the attempt value of every CLAIMED outcome, in order
    hist,       \* history: a checkpoint_s3 write succeeded, a call raised or a worker
                \* halted, the workers whose current invocations race for the fresh key
    msg,        \* the body of the tile's queue message
    rt,         \* one call of request_with_retry: arguments, locals, clock, outcome
    ft,         \* one call of _fetch_with_retry: arguments, locals, clock, outcome
    fn,         \* one call of a function of the library: name, arguments, result
    kt,         \* the TileJobs items two messages of one run address, with history
    rc,         \* calls of update_run_counters by the workers of one run, with history
    ig          \* runs of the ingest driver on one manifest: locals, messages sent, history

vars == <<now, job, run, pc, lv, deliveries, claims, hist, msg, rt, ft, fn, kt, rc, ig>>

\* ------------------------------------------------------------ the TileJob row
\* status "NONE" and numeric None stand for an attribute that is not in the item
AbsentJob ==
    [status |-> "NONE", attempts |-> None, lock_until_epoch |-> None,
     started_at_epoch |-> None, last_claimed_at_epoch |-> None,
     finished_at_epoch |-> None, s3 |-> FALSE, error_code |-> "NONE"]

IfNotExists(attr, dflt) == IF attr = None THEN dflt ELSE attr

\* mutant: the lease test accepts a lease that ends exactly now
ClaimCondition_LeaseInclusive(r, t) ==
    \/ r.status = "NONE"
    \/ r.status \in {"PENDING", "FAILED"}
    \/ /\ r.status = "PROCESSING"
       /\ (r.lock_until_epoch = None \/ r.lock_until_epoch <= t)

\* mutant: a PROCESSING row is claimable whatever its lease
ClaimCondition_NoLease(r, t) ==
    r.status \in {"NONE", "PENDING", "FAILED", "PROCESSING"}

\* ConditionExpression of claim_job
ClaimCondition(r, t) ==
    \/ r.status = "NONE"
    \/ r.status \in {"PENDING", "FAILED"}
    \/ /\ r.status = "PROCESSING"
       /\ (r.lock_until_epoch = None \/ r.lock_until_epoch < t)

\* mutant: attempts is set to one instead of being incremented
ClaimUpdate_ResetAttempts(r, t, lock_seconds) ==
    [r EXCEPT !.status = "PROCESSING",
              !.attempts = 1,
              !.lock_until_epoch = t + lock_seconds,
              !.started_at_epoch = IfNotExists(r.started_at_epoch, t),
              !.last_claimed_at_epoch = t]

\* UpdateExpression of claim_job
ClaimUpdate(r, t, lock_seconds) ==
    [r EXCEPT !.status = "PROCESSING",
              !.attempts = IfNotExists(r.attempts, 0) + 1,
              !.lock_until_epoch = t + lock_seconds,
              !.started_at_epoch = IfNotExists(r.started_at_epoch, t),
              !.last_claimed_at_epoch = t]

\* UpdateExpression of checkpoint_s3
CheckpointUpdate(r) == [r EXCEPT !.s3 = TRUE]

\* mutant: completing the row clears the error of an earlier attempt
CompleteUpdate_ClearError(r, t) ==
    [r EXCEPT !.status = "COMPLETED", !.finished_at_epoch = t, !.s3 = TRUE,
              !.error_code = "NONE"]

\* UpdateExpression of complete_job
CompleteUpdate(r, t) ==
    [r EXCEPT !.status = "COMPLETED", !.finished_at_epoch = t, !.s3 = TRUE]

\* mutant: recording the failure drops the stored checkpoint
FailUpdate_DropCheckpoint(r, t, code) ==
    [r EXCEPT !.status = "FAILED", !.finished_at_epoch = t, !.error_code = code,
              !.s3 = FALSE]

\* UpdateExpression of fail_job
FailUpdate(r, t, code) ==
    [r EXCEPT !.status = "FAILED", !.finished_at_epoch = t, !.error_code = code]

\* mutant: the deltas are stored instead of being added
UpdateRunCounters_Set(r, completed_delta, failed_delta) ==
    IF completed_delta = 0 /\ failed_delta = 0
    THEN r
    ELSE [r EXCEPT !.completed_tiles = completed_delta,
                   !.failed_tiles = failed_delta]

\* update_run_counters: no store call when both deltas are zero, else one ADD
UpdateRunCounters(r, completed_delta, failed_delta) ==
    IF completed_delta = 0 /\ failed_delta = 0
    THEN r
    ELSE [r EXCEPT !.completed_tiles = @ + completed_delta,
                   !.failed_tiles = @ + failed_delta]

\* _get_job_status: the status read, None when the item has none or the read fails
GetJobStatus(r, readOk) == IF readOk THEN r.status ELSE "NONE"

\* mutant: every terminal status counts as already completed
ClaimFailedResult_AnyTerminal(status) ==
    IF status \in {"COMPLETED", "FAILED"} THEN "ALREADY_COMPLETED" ELSE "LOCKED_BY_OTHER"

\* claim_job, except branch: the outcome after ConditionalCheckFailedException
ClaimFailedResult(status) ==
    IF status = "COMPLETED" THEN "ALREADY_COMPLETED" ELSE "LOCKED_BY_OTHER"

\* _exception_to_error_code
ExceptionToErrorCode(exc) ==
    CASE exc = "ImageryFetchError" -> "MAPBOX_5XX"
      [] exc = "AnalysisError"     -> "OPENAI_BAD_RESPONSE"
      [] exc = "TimeoutError"      -> "DEADLINE_EXCEEDED"
      [] exc = "S3Error"           -> "S3_PUT_FAILED"
      [] OTHER                     -> "UNKNOWN_ERROR"

\* ------------------------------------------------------------ process_tile
\* result, attempt, claimed_at_epoch, ckpt: the ClaimResultData of the invocation;
\* exc: the exception being handled; budget: the invocation's remaining time at
\* the start of the vision-model call in progress; the rest records what the
\* invocation met
InitLocal ==
    [result |-> "NONE", attempt |-> None, claimed_at_epoch |-> None,
     ckpt |-> FALSE, exc |-> "NONE",
     readErr |-> FALSE, sawCompleted |-> FALSE, afterCkpt |-> FALSE,
     budget |-> None]

\* mutant: the LOCKED_BY_OTHER raise happens inside the try block
AfterClaim_LockedInTry(result, ckpt) ==
    CASE result = "ALREADY_COMPLETED" -> "ret_skipped"
      [] result = "LOCKED_BY_OTHER"   -> "fail_job"
      [] result = "CLAIMED" /\ ckpt   -> "download"
      [] OTHER                        -> "fetch"

\* mutant: a fresh claim records the checkpoint before anything is uploaded
AfterClaim_CheckpointFirst(result, ckpt) ==
    CASE result = "ALREADY_COMPLETED" -> "ret_skipped"
      [] result = "LOCKED_BY_OTHER"   -> "raised"
      [] result = "CLAIMED" /\ ckpt   -> "download"
      [] OTHER                        -> "checkpoint_s3"

\* process_tile after claim_job returned: where control goes
AfterClaim(result, ckpt) ==
    CASE result = "ALREADY_COMPLETED" -> "ret_skipped"
      [] result = "LOCKED_BY_OTHER"   -> "raised"
      [] result = "CLAIMED" /\ ckpt   -> "download"
      [] OTHER                        -> "fetch"

\* the invocation has returned (message acknowledged: completed, skipped,
\* invalid_message) or raised (message stays queued)
EndPcs == {"ret_completed", "ret_skipped", "ret_invalid", "raised"}

\* between a CLAIMED outcome and the terminal write of the invocation
WorkPcs == {"download", "fetch", "upload", "checkpoint_s3", "deadline", "analyze",
            "complete_job"}

\* no call of the function is in progress
NoCall == [pc |-> "off"]

Rank == [w \in Workers |-> IF w = "w1" THEN 1 ELSE 2]

\* the tile has no row, its run is created and total_tiles is final, no worker runs
InitTile ==
    /\ now = 0
    /\ job = AbsentJob
    /\ run = [completed_tiles |-> 0, failed_tiles |-> 0, total_tiles |-> 1]
    /\ pc = [w \in Workers |-> "idle"]
    /\ lv = [w \in Workers |-> InitLocal]
    /\ deliveries = 0
    /\ claims = <<>>
    /\ hist = [ckptDone |-> FALSE, faults |-> FALSE, racers |-> {}]

Init ==
    /\ InitTile
    /\ msg = TileMessage
    /\ rt = NoCall
    /\ ft = NoCall
    /\ fn = NoCall
    /\ kt = NoCall
    /\ rc = NoCall
    /\ ig = NoCall

\* the wall clock advances
Tick ==
    /\ now < MaxTime
    /\ now' = now + 1
    /\ UNCHANGED <<job, run, pc, lv, deliveries, claims, hist>>
    /\ UNCHANGED <<msg, rt, ft, fn, kt, rc, ig>>

\* the row is fresh: no claim has ever been written for the key
Fresh == job.status = "NONE"

Goto(w, label) == pc' = [pc EXCEPT ![w] = label]

\* mutant: the error leaves process_tile without the failure path
Raise_NoFailurePath(w, exc) ==
    /\ Goto(w, "raised")
    /\ lv' = [lv EXCEPT ![w].exc = exc, ![w].budget = None]
    /\ hist' = [hist EXCEPT !.faults = TRUE]

\* a stage raised inside the try block of process_tile: except Exception
Raise(w, exc) ==
    /\ Goto(w, "fail_job")
    /\ lv' = [lv EXCEPT ![w].exc = exc, ![w].budget = None]
    /\ hist' = [hist EXCEPT !.faults = TRUE]

\* the workers racing for the fresh key once w has entered claim_job: w and
\* every worker already in claim_job while no claim has been written
Racing(w) ==
    IF Fresh /\ \E u \in Workers \ {w} : pc[u] = "claim"
    THEN {u \in Workers : pc[u] = "claim"} \cup {w}
    ELSE hist.racers

\* the race is over for all once one of the racing invocations has ended
RaceAfterEnd(w) == IF w \in hist.racers THEN {} ELSE hist.racers

\* the queue delivers the tile's message to an idle worker (idle workers are
\* interchangeable: the first one takes it); _async_handler parses it and
\* calls process_tile
Deliver(w) ==
    /\ pc[w] = "idle"
    /\ ParseBody(msg) = "ok"
    /\ \A v \in Workers : Rank[v] < Rank[w] => pc[v] # "idle"
    /\ deliveries < MaxDeliveries
    /\ deliveries' = deliveries + 1
    /\ lv' = [lv EXCEPT ![w] = InitLocal]
    /\ hist' = [hist EXCEPT !.racers = Racing(w)]
    /\ Goto(w, "claim")
    /\ UNCHANGED <<now, job, run, claims>>
    /\ UNCHANGED <<msg, rt, ft, fn, kt, rc, ig>>

\* the queue delivers a body that json.loads or model_validate rejects:
\* _async_handler logs it and returns status invalid_message
Reject(w) ==
    /\ pc[w] = "idle"
    /\ \A v \in Workers : Rank[v] < Rank[w] => pc[v] # "idle"
    /\ ParseBody(msg) # "ok"
    /\ deliveries < MaxDeliveries
    /\ deliveries' = deliveries + 1
    /\ Goto(w, "ret_invalid")
    /\ UNCHANGED <<now, job, run, lv, claims, hist>>
    /\ UNCHANGED <<msg, rt, ft, fn, kt, rc, ig>>

\* mutant: claim_job is called inside the try block, so its store error takes
\* the failure path
ClaimWrite_InTry(w) ==
    /\ pc[w] = "claim"
    /\ \/ /\ Raise(w, "ClientError")
          /\ UNCHANGED <<now, job, run, deliveries, claims>>
       \/ /\ ~NumbersOk(msg)
          /\ Goto(w, "raised")
          /\ lv' = [lv EXCEPT ![w].exc = "ClientError"]
          /\ UNCHANGED <<now, job, run, deliveries, claims, hist>>
       \/ /\ NumbersOk(msg)
          /\ ClaimCondition(job, now)
          /\ LET post == ClaimUpdate(job, now, LockSeconds)
                 ckpt == post.s3
             IN /\ job' = post
                /\ lv' = [lv EXCEPT ![w].result = "CLAIMED",
                                    ![w].attempt = post.attempts,
                                    ![w].claimed_at_epoch = now,
                                    ![w].ckpt = ckpt,
                                    ![w].afterCkpt = hist.ckptDone]
                /\ claims' = Append(claims, post.attempts)
                /\ Goto(w, AfterClaim("CLAIMED", ckpt))
          /\ UNCHANGED <<now, run, deliveries, hist>>
       \/ /\ NumbersOk(msg)
          /\ ~ClaimCondition(job, now)
          /\ lv' = [lv EXCEPT ![w].sawCompleted = (job.status = "COMPLETED")]
          /\ Goto(w, "claim_read")
          /\ UNCHANGED <<now, job, run, deliveries, claims, hist>>
    /\ UNCHANGED <<msg, rt, ft, fn, kt, rc, ig>>

\* claim_job: the conditional update_item
ClaimWrite(w) ==
    /\ pc[w] = "claim"
    /\ \/ \* the store fails the call with another ClientError: claim_job re-raises
          /\ Goto(w, "raised")
          /\ lv' = [lv EXCEPT ![w].exc = "ClientError"]
          /\ hist' = [hist EXCEPT !.faults = TRUE]
          /\ UNCHANGED <<now, job, run, deliveries, claims>>
       \/ \* the request carries an N value that is no number: the store rejects
          \* it with a ValidationException, claim_job re-raises
          /\ ~NumbersOk(msg)
          /\ Goto(w, "raised")
          /\ lv' = [lv EXCEPT ![w].exc = "ClientError"]
          /\ UNCHANGED <<now, job, run, deliveries, claims, hist>>
       \/ \* the condition holds: the update is applied, ReturnValues = ALL_NEW
          /\ NumbersOk(msg)
          /\ ClaimCondition(job, now)
          /\ LET post == ClaimUpdate(job, now, LockSeconds)
                 ckpt == post.s3
             IN /\ job' = post
                /\ lv' = [lv EXCEPT ![w].result = "CLAIMED",
                                    ![w].attempt = post.attempts,
                                    ![w].claimed_at_epoch = now,
                                    ![w].ckpt = ckpt,
                                    ![w].afterCkpt = hist.ckptDone]
                /\ claims' = Append(claims, post.attempts)
                /\ Goto(w, AfterClaim("CLAIMED", ckpt))
          /\ UNCHANGED <<now, run, deliveries, hist>>
       \/ \* ConditionalCheckFailedException: nothing is written, the status read follows
          /\ NumbersOk(msg)
          /\ ~ClaimCondition(job, now)
          /\ lv' = [lv EXCEPT ![w].sawCompleted = (job.status = "COMPLETED")]
          /\ Goto(w, "claim_read")
          /\ UNCHANGED <<now, job, run, deliveries, claims, hist>>
    /\ UNCHANGED <<msg, rt, ft, fn, kt, rc, ig>>

\* claim_job: _get_job_status after the failed condition, then process_tile
\* returns "skipped" or raises RuntimeError
ClaimRead(w) ==
    /\ pc[w] = "claim_read"
    /\ \E readOk \in BOOLEAN :
         LET result == ClaimFailedResult(GetJobStatus(job, readOk))
         IN /\ lv' = [lv EXCEPT ![w].result = result, ![w].readErr = ~readOk]
            /\ Goto(w, AfterClaim(result, FALSE))
    /\ UNCHANGED <<now, job, run, deliveries, claims, hist>>
    /\ UNCHANGED <<msg, rt, ft, fn, kt, rc, ig>>

\* _download_from_checkpoint: get_object returns the bytes or raises botocore's
\* ClientError
Download(w) ==
    /\ pc[w] = "download"
    /\ \/ Goto(w, "deadline") /\ UNCHANGED <<lv, hist>>
       \/ Raise(w, "ClientError")
    /\ UNCHANGED <<now, job, run, deliveries, claims>>
    /\ UNCHANGED <<msg, rt, ft, fn, kt, rc, ig>>

\* _fetch_imagery
Fetch(w) ==
    /\ pc[w] = "fetch"
    /\ \/ Goto(w, "upload") /\ UNCHANGED <<lv, hist>>
       \/ Raise(w, "ImageryFetchError")
    /\ UNCHANGED <<now, job, run, deliveries, claims>>
    /\ UNCHANGED <<msg, rt, ft, fn, kt, rc, ig>>

\* _upload_to_s3: put_object succeeds or raises botocore's ClientError
Upload(w) ==
    /\ pc[w] = "upload"
    /\ \/ Goto(w, "checkpoint_s3") /\ UNCHANGED <<lv, hist>>
       \/ Raise(w, "ClientError")
    /\ UNCHANGED <<now, job, run, deliveries, claims>>
    /\ UNCHANGED <<msg, rt, ft, fn, kt, rc, ig>>

\* checkpoint_s3: unconditional update_item
Checkpoint(w) ==
    /\ pc[w] = "checkpoint_s3"
    /\ \/ /\ job' = CheckpointUpdate(job)
          /\ hist' = [hist EXCEPT !.ckptDone = TRUE]
          /\ Goto(w, "deadline")
          /\ UNCHANGED lv
       \/ Raise(w, "ClientError") /\ UNCHANGED job
    /\ UNCHANGED <<now, run, deliveries, claims>>
    /\ UNCHANGED <<msg, rt, ft, fn, kt, rc, ig>>

\* what is left of the invocation's time once elapsed_ms have gone by since the
\* runtime reported remaining_time_ms (None: the runtime reports no time)
BudgetLeft(remaining_time_ms, elapsed_ms) ==
    IF remaining_time_ms = None THEN None ELSE remaining_time_ms - elapsed_ms

\* the time budget check before the vision-model call; remaining_time_ms is
\* what the handler read from the hosting runtime before it called process_tile
DeadlineCheck(w) ==
    /\ pc[w] = "deadline"
    /\ \E remaining_time_ms \in RemainingChoices, elapsed_ms \in ElapsedChoices :
         IF remaining_time_ms # None /\ remaining_time_ms < MIN_REMAINING_MS_FOR_OPENAI
         THEN Raise(w, "TimeoutError")
         ELSE /\ Goto(w, "analyze")
              /\ lv' = [lv EXCEPT ![w].budget = BudgetLeft(remaining_time_ms, elapsed_ms)]
              /\ UNCHANGED hist
    /\ UNCHANGED <<now, job, run, deliveries, claims>>
    /\ UNCHANGED <<msg, rt, ft, fn, kt, rc, ig>>

\* _analyze_with_openai
Analyze(w) ==
    /\ pc[w] = "analyze"
    /\ \/ /\ Goto(w, "complete_job")
          /\ lv' = [lv EXCEPT ![w].budget = None]
          /\ UNCHANGED hist
       \/ Raise(w, "AnalysisError")
    /\ UNCHANGED <<now, job, run, deliveries, claims>>
    /\ UNCHANGED <<msg, rt, ft, fn, kt, rc, ig>>

\* complete_job: unconditional update_item
Complete(w) ==
    /\ pc[w] = "complete_job"
    /\ \/ /\ job' = CompleteUpdate(job, now)
          /\ Goto(w, "update_counters")
          /\ UNCHANGED <<lv, hist>>
       \/ Raise(w, "ClientError") /\ UNCHANGED job
    /\ UNCHANGED <<now, run, deliveries, claims>>
    /\ UNCHANGED <<msg, rt, ft, fn, kt, rc, ig>>

\* update_run_counters(completed_delta = 1), then return "completed"
BumpCompleted(w) ==
    /\ pc[w] = "update_counters"
    /\ \/ /\ run' = UpdateRunCounters(run, 1, 0)
          /\ Goto(w, "ret_completed")
          /\ UNCHANGED <<lv, hist>>
       \/ Raise(w, "ClientError") /\ UNCHANGED run
    /\ UNCHANGED <<now, job, deliveries, claims>>
    /\ UNCHANGED <<msg, rt, ft, fn, kt, rc, ig>>

\* mutant: the counter update is attempted although fail_job raised
FailJob_BumpAnyway(w) ==
    /\ pc[w] = "fail_job"
    /\ \/ /\ job' = FailUpdate(job, now, ExceptionToErrorCode(lv[w].exc))
          /\ Goto(w, "update_failed")
       \/ /\ Goto(w, "update_failed")
          /\ UNCHANGED job
    /\ UNCHANGED <<now, run, lv, deliveries, claims, hist>>
    /\ UNCHANGED <<msg, rt, ft, fn, kt, rc, ig>>

\* _handle_failure: fail_job; if it raises the error is logged and swallowed,
\* the counter update is skipped and process_tile re-raises
FailJob(w) ==
    /\ pc[w] = "fail_job"
    /\ \/ /\ job' = FailUpdate(job, now, ExceptionToErrorCode(lv[w].exc))
          /\ Goto(w, "update_failed")
       \/ /\ Goto(w, "raised")
          /\ UNCHANGED job
    /\ UNCHANGED <<now, run, lv, deliveries, claims, hist>>
    /\ UNCHANGED <<msg, rt, ft, fn, kt, rc, ig>>

\* _handle_failure: update_run_counters(failed_delta = 1), raising or not,
\* then process_tile re-raises
BumpFailed(w) ==
    /\ pc[w] = "update_failed"
    /\ \/ run' = UpdateRunCounters(run, 0, 1)
       \/ UNCHANGED run
    /\ Goto(w, "raised")
    /\ UNCHANGED <<now, job, lv, deliveries, claims, hist>>
    /\ UNCHANGED <<msg, rt, ft, fn, kt, rc, ig>>

\* the hosting runtime takes the outcome: a return deletes the message from
\* the queue, a raise leaves it for redelivery; the worker is idle again
Finish(w) ==
    /\ pc[w] \in EndPcs
    /\ Goto(w, "idle")
    /\ lv' = [lv EXCEPT ![w] = InitLocal]
    /\ hist' = [hist EXCEPT !.racers = RaceAfterEnd(w)]
    /\ UNCHANGED <<now, job, run, deliveries, claims>>
    /\ UNCHANGED <<msg, rt, ft, fn, kt, rc, ig>>

\* mutant: the halt of a worker takes the lease off the row
Crash_DropsLease(w) ==
    /\ pc[w] \notin EndPcs \cup {"idle"}
    /\ Goto(w, "idle")
    /\ lv' = [lv EXCEPT ![w] = InitLocal]
    /\ hist' = [hist EXCEPT !.faults = TRUE, !.racers = RaceAfterEnd(w)]
    /\ job' = IF lv[w].result = "CLAIMED"
              THEN [job EXCEPT !.lock_until_epoch = None]
              ELSE job
    /\ UNCHANGED <<now, run, deliveries, claims>>
    /\ UNCHANGED <<msg, rt, ft, fn, kt, rc, ig>>

\* the worker halts abruptly in the middle of an invocation
Crash(w) ==
    /\ pc[w] \notin EndPcs \cup {"idle"}
    /\ Goto(w, "idle")
    /\ lv' = [lv EXCEPT ![w] = InitLocal]
    /\ hist' = [hist EXCEPT !.faults = TRUE, !.racers = RaceAfterEnd(w)]
    /\ UNCHANGED <<now, job, run, deliveries, claims>>
    /\ UNCHANGED <<msg, rt, ft, fn, kt, rc, ig>>

Next ==
    \/ Tick
    \/ \E w \in Workers : Deliver(w)
    \/ \E w \in Workers : ClaimWrite(w)
    \/ \E w \in Workers : ClaimRead(w)
    \/ \E w \in Workers : Download(w)
    \/ \E w \in Workers : Fetch(w)
    \/ \E w \in Workers : Upload(w)
    \/ \E w \in Workers : Checkpoint(w)
    \/ \E w \in Workers : DeadlineCheck(w)
    \/ \E w \in Workers : Analyze(w)
    \/ \E w \in Workers : Complete(w)
    \/ \E w \in Workers : BumpCompleted(w)
    \/ \E w \in Workers : FailJob(w)
    \/ \E w \in Workers : BumpFailed(w)
    \/ \E w \in Workers : Finish(w)
    \/ \E w \in Workers : Crash(w)

Spec == Init /\ [][Next]_vars

\* the handler on any body, and the claim that a valid body leads to
InitMsg ==
    /\ InitTile
    /\ msg \in Bodies
    /\ rt = NoCall
    /\ ft = NoCall
    /\ fn = NoCall
    /\ kt = NoCall
    /\ rc = NoCall
    /\ ig = NoCall

NextMsg ==
    \/ \E w \in Workers : Deliver(w)
    \/ \E w \in Workers : Reject(w)
    \/ \E w \in Workers : ClaimWrite(w)
    \/ \E w \in Workers : ClaimRead(w)
    \/ \E w \in Workers : Finish(w)

SpecMsg == InitMsg /\ [][NextMsg]_vars

\* the first delivery of any valid message, processed by one invocation
InitOne ==
    /\ InitTile
    /\ msg \in {m \in Bodies : ParseBody(m) = "ok"}
    /\ rt = NoCall
    /\ ft = NoCall
    /\ fn = NoCall
    /\ kt = NoCall
    /\ rc = NoCall
    /\ ig = NoCall

\* the delivery of the message that no invocation has seen yet
FirstDelivery(w) == deliveries = 0 /\ Deliver(w)

NextOne ==
    \/ \E w \in Workers : FirstDelivery(w)
    \/ \E w \in Workers : ClaimWrite(w)
    \/ \E w \in Workers : Fetch(w)
    \/ \E w \in Workers : Upload(w)
    \/ \E w \in Workers : Checkpoint(w)
    \/ \E w \in Workers : DeadlineCheck(w)
    \/ \E w \in Workers : Analyze(w)
    \/ \E w \in Workers : Complete(w)
    \/ \E w \in Workers : BumpCompleted(w)
    \/ \E w \in Workers : FailJob(w)
    \/ \E w \in Workers : BumpFailed(w)
    \/ \E w \in Workers : Finish(w)

SpecOne == InitOne /\ [][NextOne]_vars

TypeOK ==
    /\ now \in 0..MaxTime
    /\ job.status \in {"NONE", "PROCESSING", "COMPLETED", "FAILED"}
    /\ deliveries \in 0..MaxDeliveries
    /\ Len(claims) <= deliveries

\* ------------------------------------------------ request_with_retry (http.py)
\* Times are whole seconds, min_time_for_attempt_ms is in milliseconds; one
\* call is followed from its entry to its return or raise.

\* largest max_retries, latest deadline_epoch, longest request (the timeout)
MaxRetries == 3
MaxDeadline == 5
MaxRequestTime == 1

\* backoff_base of the call, in seconds
BackoffBase == 1

\* min_time_for_attempt_ms of the call
MinTimeChoices == {0, 2000}

\* _RETRYABLE_STATUS
RETRYABLE_STATUS == {429, 500, 502, 503, 504}

\* statuses the server answers with
Statuses == {200, 404} \cup RETRYABLE_STATUS

\* the Retry-After header of a response: none, an empty value, a value float()
\* rejects (an HTTP date), a number of seconds, "nan", "inf"
RetryAfterChoices ==
    {[kind |-> "none", val |-> 0], [kind |-> "empty", val |-> 0],
     [kind |-> "text", val |-> 0], [kind |-> "nan", val |-> 0],
     [kind |-> "inf", val |-> 0]}
    \cup [kind : {"num"}, val : {0 - 1, 0, 3}]

\* b to the power of n
RECURSIVE Pow(_, _)
Pow(b, n) == IF n = 0 THEN 1 ELSE b * Pow(b, n - 1)

\* backoff_base * (2 ** (attempt - 1))
Backoff(backoff_base, attempt) == backoff_base * Pow(2, attempt - 1)

\* lines 102-108: the sleep length, a float: a number, NaN or infinity
SleepFor(retry_after, backoff_base, attempt) ==
    IF retry_after.kind \in {"none", "empty", "text"}
    THEN [kind |-> "num", val |-> Backoff(backoff_base, attempt)]
    ELSE retry_after

\* mutant: the check before an attempt ignores min_time_for_attempt_ms
AttemptExceedsDeadline_NoMargin(clock, deadline_epoch, min_time_for_attempt_ms) ==
    /\ deadline_epoch # None
    /\ (deadline_epoch - clock) * 1000 < 0

\* lines 78-81: remaining_ms < min_time_for_attempt_ms
AttemptExceedsDeadline(clock, deadline_epoch, min_time_for_attempt_ms) ==
    /\ deadline_epoch # None
    /\ (deadline_epoch - clock) * 1000 < min_time_for_attempt_ms

\* mutant: the check before a sleep ignores min_time_for_attempt_ms
SleepExceedsDeadline_NoMargin(clock, sleep_for, deadline_epoch, min_time_for_attempt_ms) ==
    /\ deadline_epoch # None
    /\ CASE sleep_for.kind = "nan" -> FALSE
         [] sleep_for.kind = "inf" -> TRUE
         [] OTHER -> (clock + sleep_for.val) * 1000 > deadline_epoch * 1000

\* lines 111-113: time_after_sleep + min_time_for_attempt_ms / 1000 > deadline_epoch
\* (a comparison with NaN is false, infinity exceeds every deadline)
SleepExceedsDeadline(clock, sleep_for, deadline_epoch, min_time_for_attempt_ms) ==
    /\ deadline_epoch # None
    /\ CASE sleep_for.kind = "nan" -> FALSE
         [] sleep_for.kind = "inf" -> TRUE
         [] OTHER -> (clock + sleep_for.val) * 1000 + min_time_for_attempt_ms
                       > deadline_epoch * 1000

\* mutant: 429 is returned to the caller instead of being retried
IsRetryable_Without429(status) == status \in RETRYABLE_STATUS \ {429}

\* line 85: response.status_code in retryable
IsRetryable(status) == status \in RETRYABLE_STATUS

\* the call at its entry: arguments, then locals and what it did so far
\* (requests issued, responses not yet closed, retryable responses seen,
\* sleeps finished)
RetryCalls ==
    [pc : {"loop"}, max_retries : 0..MaxRetries,
     deadline_epoch : {None} \cup 0..MaxDeadline,
     min_time_for_attempt_ms : MinTimeChoices, backoff_base : {BackoffBase},
     attempt : {0}, clock : {0}, status : {None}, retry_after : {[kind |-> "none", val |-> 0]},
     sleep_for : {[kind |-> "num", val |-> 0]}, last_response : {None},
     open : {0}, requests : {0}, retried : {0}, sleeps : {0}, outcome : {"NONE"}]

\* the call ends: it returns or raises
RtDone(outcome) == [rt EXCEPT !.pc = "done", !.outcome = outcome]

\* lines 76-81: the next attempt of the for loop and the check before it
RtLoop ==
    /\ rt.pc = "loop"
    /\ IF rt.attempt >= rt.max_retries
       THEN rt' = [rt EXCEPT !.pc = "exhausted"]
       ELSE IF AttemptExceedsDeadline(rt.clock, rt.deadline_epoch,
                                      rt.min_time_for_attempt_ms)
       THEN rt' = [RtDone("DeadlineExceededError") EXCEPT !.attempt = @ + 1]
       ELSE rt' = [rt EXCEPT !.pc = "request", !.attempt = @ + 1]
    /\ UNCHANGED <<now, job, run, pc, lv, deliveries, claims, hist, msg, ft, fn, kt, rc, ig>>

\* line 83: the request takes up to the timeout and is answered, or the
\* transport raises
RtRequest ==
    /\ rt.pc = "request"
    /\ \E d \in 0..MaxRequestTime :
         \/ \E status \in Statuses, retry_after \in RetryAfterChoices :
              rt' = [rt EXCEPT !.pc = "response", !.clock = @ + d,
                               !.requests = @ + 1, !.status = status,
                               !.retry_after = retry_after, !.open = @ + 1]
         \/ rt' = [RtDone("RequestException") EXCEPT !.clock = @ + d,
                                                    !.requests = @ + 1]
    /\ UNCHANGED <<now, job, run, pc, lv, deliveries, claims, hist, msg, ft, fn, kt, rc, ig>>

\* mutant: a retryable response is kept open
RtResponse_NoClose ==
    /\ rt.pc = "response"
    /\ IF ~IsRetryable(rt.status)
       THEN rt' = RtDone("returned")
       ELSE rt' = [rt EXCEPT !.last_response = rt.status,
                             !.retried = @ + 1,
                             !.pc = IF rt.attempt >= rt.max_retries
                                    THEN "exhausted" ELSE "backoff"]
    /\ UNCHANGED <<now, job, run, pc, lv, deliveries, claims, hist, msg, ft, fn, kt, rc, ig>>

\* lines 85-99: return a response that is not retryable; else read Retry-After,
\* close the response, and leave the loop after the last attempt
RtResponse ==
    /\ rt.pc = "response"
    /\ IF ~IsRetryable(rt.status)
       THEN rt' = RtDone("returned")
       ELSE rt' = [rt EXCEPT !.open = @ - 1, !.last_response = rt.status,
                             !.retried = @ + 1,
                             !.pc = IF rt.attempt >= rt.max_retries
                                    THEN "exhausted" ELSE "backoff"]
    /\ UNCHANGED <<now, job, run, pc, lv, deliveries, claims, hist, msg, ft, fn, kt, rc, ig>>

\* lines 101-116: the sleep length and the check before the sleep
RtBackoff ==
    /\ rt.pc = "backoff"
    /\ LET sleep_for == SleepFor(rt.retry_after, rt.backoff_base, rt.attempt)
       IN IF SleepExceedsDeadline(rt.clock, sleep_for, rt.deadline_epoch,
                                  rt.min_time_for_attempt_ms)
          THEN rt' = [RtDone("DeadlineExceededError") EXCEPT !.sleep_for = sleep_for]
          ELSE rt' = [rt EXCEPT !.pc = "sleep", !.sleep_for = sleep_for]
    /\ UNCHANGED <<now, job, run, pc, lv, deliveries, claims, hist, msg, ft, fn, kt, rc, ig>>

\* line 118: time.sleep raises ValueError for a negative length and for NaN,
\* OverflowError for infinity
RtSleep ==
    /\ rt.pc = "sleep"
    /\ rt' = CASE rt.sleep_for.kind = "nan" -> RtDone("ValueError")
               [] rt.sleep_for.kind = "inf" -> RtDone("OverflowError")
               [] rt.sleep_for.val < 0 -> RtDone("ValueError")
               [] OTHER -> [rt EXCEPT !.pc = "loop", !.clock = @ + rt.sleep_for.val,
                                      !.sleeps = @ + 1]
    /\ UNCHANGED <<now, job, run, pc, lv, deliveries, claims, hist, msg, ft, fn, kt, rc, ig>>

\* lines 120-122: after the loop
RtExhausted ==
    /\ rt.pc = "exhausted"
    /\ rt' = IF rt.last_response = None
             THEN RtDone("AssertionError")
             ELSE RtDone("RetryExhaustedError")
    /\ UNCHANGED <<now, job, run, pc, lv, deliveries, claims, hist, msg, ft, fn, kt, rc, ig>>

InitRetry ==
    /\ InitTile
    /\ msg = TileMessage
    /\ rt \in RetryCalls
    /\ ft = NoCall
    /\ fn = NoCall
    /\ kt = NoCall
    /\ rc = NoCall
    /\ ig = NoCall

NextRetry ==
    \/ RtLoop
    \/ RtRequest
    \/ RtResponse
    \/ RtBackoff
    \/ RtSleep
    \/ RtExhausted

SpecRetry == InitRetry /\ [][NextRetry]_vars

\* ------------------------------------------- _fetch_with_retry (fetchers.py)
\* One imagery fetch of a claimed tile, and what process_tile does with its
\* outcome. Times are whole seconds.

\* a google message that carries its zoom
GoogleMessage ==
    [json |-> TRUE, has_run_source |-> TRUE, imagery_source |-> "google",
     z |-> Absent, x |-> Absent, y |-> Absent, lat |-> LAT_MAX, lon |-> 0,
     zoom |-> DEFAULT_GOOGLE_ZOOM]

\* statuses the imagery provider answers with
FetchStatuses == Statuses \cup {400}

\* source.upper()
SourceUpper(source) ==
    CASE source = "mapbox" -> "MAPBOX"
      [] source = "google" -> "GOOGLE"
      [] source = "openai" -> "OPENAI"

\* the members of the ErrorCode enum
ErrorCodes ==
    {"MAPBOX_429", "MAPBOX_5XX", "MAPBOX_4XX", "MAPBOX_BAD_REQUEST", "MAPBOX_TIMEOUT",
     "GOOGLE_429", "GOOGLE_5XX", "GOOGLE_4XX", "GOOGLE_BAD_REQUEST", "GOOGLE_TIMEOUT",
     "OPENAI_429", "OPENAI_5XX", "OPENAI_4XX", "OPENAI_BAD_RESPONSE", "OPENAI_TIMEOUT",
     "S3_PUT_FAILED", "S3_GET_FAILED", "SCHEMA_INVALID", "MESSAGE_PARSE_ERROR",
     "DEADLINE_EXCEEDED", "RETRY_EXHAUSTED", "CLAIM_FAILED", "UNKNOWN_ERROR"}

\* ErrorCode(value): the member with that value; the lookup of a value that
\* no member has raises ValueError
ErrorCode(value) == IF value \in ErrorCodes THEN value ELSE "ValueError"

\* error_code_from_http_status
ErrorCodeFromHttpStatus(source, status_code) ==
    IF status_code = 429 THEN ErrorCode(SourceUpper(source) \o "_429")
    ELSE IF 500 <= status_code /\ status_code < 600
         THEN ErrorCode(SourceUpper(source) \o "_5XX")
    ELSE IF 400 <= status_code /\ status_code < 500
         THEN IF status_code = 400
              THEN ErrorCode(SourceUpper(source) \o "_BAD_REQUEST")
              ELSE ErrorCode(SourceUpper(source) \o "_4XX")
    ELSE "UNKNOWN_ERROR"

\* _exception_to_error_code on the exception a fetch ends with
FetchErrorCode(e) ==
    IF e.type = "ImageryFetchError"
    THEN IF e.status_code # None
         THEN ErrorCodeFromHttpStatus(e.source, e.status_code)
         ELSE ErrorCode(SourceUpper(e.source) \o "_TIMEOUT")
    ELSE ExceptionToErrorCode(e.type)

NoError == [type |-> "NONE", source |-> "NONE", status_code |-> None, attempts |-> 0]

\* ImageryFetchError(source, status_code, message, attempts)
ImageryFetchError(source, status_code, attempts) ==
    [type |-> "ImageryFetchError", source |-> source, status_code |-> status_code,
     attempts |-> attempts]

\* the call at its entry: arguments, locals, what it did so far; budget_end is
\* the instant the invocation's time budget runs out, which the hosting
\* runtime knows and the function is not given
FetchCalls(source) ==
    [pc : {"loop"}, source : {source}, max_retries : 0..MaxRetries,
     backoff_base : {BackoffBase}, budget_end : 0..MaxDeadline,
     attempt : {0}, clock : {0}, last_status : {None}, sleep_for : {0},
     requests : {0}, sleeps : {0}, only503 : {TRUE}, outcome : {"NONE"},
     error : {NoError}]

\* the call ends: it returns the bytes or raises
FtDone(outcome, error) == [ft EXCEPT !.pc = "done", !.outcome = outcome, !.error = error]

\* line 107: the next attempt of the for loop
FtLoop ==
    /\ ft.pc = "loop"
    /\ ft' = IF ft.attempt >= ft.max_retries
             THEN [ft EXCEPT !.pc = "exhausted"]
             ELSE [ft EXCEPT !.pc = "request", !.attempt = @ + 1]
    /\ UNCHANGED <<now, job, run, pc, lv, deliveries, claims, hist, msg, rt, fn, kt, rc, ig>>

\* lines 108-145: one GET, taking up to the timeout: 200 returns the body, a
\* status outside the retryable set raises ImageryFetchError, a retryable
\* status and an aiohttp.ClientError go on to the backoff, a timeout of the
\* request (asyncio.TimeoutError, no aiohttp.ClientError) leaves the function
FtRequest ==
    /\ ft.pc = "request"
    /\ \E d \in 0..MaxRequestTime :
         LET sent == [ft EXCEPT !.clock = @ + d, !.requests = @ + 1]
         IN \/ \E status \in FetchStatuses :
                 ft' = IF status = 200
                       THEN [sent EXCEPT !.pc = "done", !.outcome = "bytes"]
                       ELSE IF status \notin RETRYABLE_STATUS
                       THEN [sent EXCEPT !.pc = "done", !.outcome = "raised",
                                         !.last_status = status,
                                         !.only503 = FALSE,
                                         !.error = ImageryFetchError(ft.source, status,
                                                                     ft.attempt)]
                       ELSE [sent EXCEPT !.pc = "backoff", !.last_status = status,
                                         !.only503 = @ /\ status = 503]
            \/ ft' = [sent EXCEPT !.pc = "backoff", !.last_status = None,
                                  !.only503 = FALSE]
            \/ ft' = [sent EXCEPT !.pc = "done", !.outcome = "raised",
                                  !.only503 = FALSE,
                                  !.error = [NoError EXCEPT !.type = "TimeoutError"]]
    /\ UNCHANGED <<now, job, run, pc, lv, deliveries, claims, hist, msg, rt, fn, kt, rc, ig>>

\* lines 148-149: no sleep after the last attempt, else the backoff length
FtBackoff ==
    /\ ft.pc = "backoff"
    /\ ft' = IF ft.attempt < ft.max_retries
             THEN [ft EXCEPT !.pc = "sleep",
                             !.sleep_for = Backoff(ft.backoff_base, ft.attempt)]
             ELSE [ft EXCEPT !.pc = "loop"]
    /\ UNCHANGED <<now, job, run, pc, lv, deliveries, claims, hist, msg, rt, fn, kt, rc, ig>>

\* line 150: asyncio.sleep(sleep_for)
FtSleep ==
    /\ ft.pc = "sleep"
    /\ ft' = [ft EXCEPT !.pc = "loop", !.clock = @ + ft.sleep_for, !.sleeps = @ + 1]
    /\ UNCHANGED <<now, job, run, pc, lv, deliveries, claims, hist, msg, rt, fn, kt, rc, ig>>

\* line 152: all attempts used
FtExhausted ==
    /\ ft.pc = "exhausted"
    /\ ft' = FtDone("raised", ImageryFetchError(ft.source, ft.last_status, ft.max_retries))
    /\ UNCHANGED <<now, job, run, pc, lv, deliveries, claims, hist, msg, rt, fn, kt, rc, ig>>

\* process_tile: the fetch returned, the upload is next
FetchReturned(w) ==
    /\ pc[w] = "fetch"
    /\ ft.pc = "done" /\ ft.outcome = "bytes"
    /\ Goto(w, "upload")
    /\ UNCHANGED <<now, job, run, lv, deliveries, claims, hist, msg, rt, ft, fn, kt, rc, ig>>

\* process_tile: the fetch raised; _handle_failure records the error with
\* fail_job (which may raise itself and is then swallowed)
FetchRaised(w) ==
    /\ pc[w] = "fetch"
    /\ ft.pc = "done" /\ ft.outcome = "raised"
    /\ lv' = [lv EXCEPT ![w].exc = ft.error.type]
    /\ hist' = [hist EXCEPT !.faults = TRUE]
    /\ \/ /\ job' = FailUpdate(job, now, FetchErrorCode(ft.error))
          /\ Goto(w, "update_failed")
       \/ /\ Goto(w, "raised")
          /\ UNCHANGED job
    /\ UNCHANGED <<now, run, deliveries, claims, msg, rt, ft, fn, kt, rc, ig>>

\* worker w1 has claimed the fresh row of a mapbox or google tile and is about
\* to fetch its imagery
InitFetch ==
    /\ now = 0
    /\ job = ClaimUpdate(AbsentJob, 0, LockSeconds)
    /\ run = [completed_tiles |-> 0, failed_tiles |-> 0, total_tiles |-> 1]
    /\ pc = [w \in Workers |-> IF w = "w1" THEN "fetch" ELSE "idle"]
    /\ lv = [w \in Workers |->
               IF w = "w1"
               THEN [InitLocal EXCEPT !.result = "CLAIMED", !.attempt = 1,
                                      !.claimed_at_epoch = 0]
               ELSE InitLocal]
    /\ deliveries = 1
    /\ claims = <<1>>
    /\ hist = [ckptDone |-> FALSE, faults |-> FALSE, racers |-> {}]
    /\ msg \in {TileMessage, GoogleMessage}
    /\ rt = NoCall
    /\ ft \in FetchCalls(msg.imagery_source)
    /\ fn = NoCall
    /\ kt = NoCall
    /\ rc = NoCall
    /\ ig = NoCall

NextFetch ==
    \/ FtLoop
    \/ FtRequest
    \/ FtBackoff
    \/ FtSleep
    \/ FtExhausted
    \/ \E w \in Workers : FetchReturned(w)
    \/ \E w \in Workers : FetchRaised(w)
    \/ \E w \in Workers : BumpFailed(w)
    \/ \E w \in Workers : Finish(w)

SpecFetch == InitFetch /\ [][NextFetch]_vars

\* ------------------------------------- error_code_from_http_status (codes.py)
\* largest HTTP status handed to the function
MaxStatus == 600

\* the providers the function is documented for
Providers == {"mapbox", "google", "openai"}

\* the statuses: every integer from -1 to MaxStatus
HttpStatuses == (0 - 1)..MaxStatus

\* one call of error_code_from_http_status at its entry
CodeCalls ==
    [pc : {"call"}, name : {"error_code_from_http_status"}, source : Providers,
     status_code : HttpStatuses, result : {"NONE"}]

\* the call runs to its return or to the ValueError of the enum lookup
CodeReturn ==
    /\ fn.pc = "call"
    /\ fn.name = "error_code_from_http_status"
    /\ fn' = [fn EXCEPT !.pc = "done",
                        !.result = ErrorCodeFromHttpStatus(fn.source, fn.status_code)]
    /\ UNCHANGED <<now, job, run, pc, lv, deliveries, claims, hist, msg, rt, ft, kt, rc, ig>>

InitCode ==
    /\ InitTile
    /\ msg = TileMessage
    /\ rt = NoCall
    /\ ft = NoCall
    /\ fn \in CodeCalls
    /\ kt = NoCall
    /\ rc = NoCall
    /\ ig = NoCall

NextCode == CodeReturn

SpecCode == InitCode /\ [][NextCode]_vars

\* ------------------------------- the TileJob key (models.py, tilejobs.py)
\* Two messages of one run and the items their claims address. lat and lon
\* are counted in units of 10^-7 degrees, one digit more than the key keeps.

\* a region that is None or empty
NoRegion == ""

\* valid messages: mapbox tiles with and without region, google coordinates
\* around zero with zoom omitted or 18
KeyMessages ==
    [imagery_source : {"mapbox"}, z : {14}, x : {0, 1}, y : {0},
     lat : {Absent}, lon : {Absent}, zoom : {Absent},
     region : {NoRegion, "eu"}]
    \cup
    [imagery_source : {"google"}, z : {Absent}, x : {Absent}, y : {Absent},
     lat : {0 - 1, 1, 4, 6}, lon : {0}, zoom : {Absent, DEFAULT_GOOGLE_ZOOM},
     region : {NoRegion}]

\* the last k decimal digits of n, leading zeros kept
RECURSIVE Digits(_, _)
Digits(n, k) == IF k = 0 THEN "" ELSE Digits(n \div 10, k - 1) \o ToString(n % 10)

\* v (in units of 10^-7) rounded to COORD_TILE_ID_PRECISION decimals, as a count
\* of 10^-6: the magnitude only
RoundedMagnitude(v) == ((IF v < 0 THEN 0 - v ELSE v) + 5) \div 10

\* f"{v:.6f}": the sign of v stays in front of a magnitude that rounds to zero
FormatCoord(v) ==
    LET m == RoundedMagnitude(v)
        unit == Pow(10, COORD_TILE_ID_PRECISION)
    IN (IF v < 0 THEN "-" ELSE "") \o ToString(m \div unit) \o "."
         \o Digits(m % unit, COORD_TILE_ID_PRECISION)

\* tile_id_for_coords
TileIdForCoords(lat, lon, zoom) ==
    "coord:" \o FormatCoord(lat) \o "," \o FormatCoord(lon) \o "," \o ToString(zoom)

\* TileJobMessage.get_zoom
GetZoom(m) == IF m.zoom # Absent THEN m.zoom ELSE DEFAULT_GOOGLE_ZOOM

\* TileJobMessage.get_tile_id
GetTileId(m) ==
    IF m.imagery_source = "mapbox"
    THEN ToString(m.z) \o "/" \o ToString(m.x) \o "/" \o ToString(m.y)
    ELSE TileIdForCoords(m.lat, m.lon, GetZoom(m))

\* an item that is not in the table
AbsentItem ==
    [job |-> AbsentJob, imagery_source |-> "NONE", z |-> Absent, x |-> Absent,
     y |-> Absent, lat |-> Absent, lon |-> Absent, zoom |-> Absent,
     region |-> NoRegion]

IfAbsent(attr, v) == IF attr = Absent THEN v ELSE attr

\* mutant: the coordinate and region fields of the message replace the stored ones
ClaimItem_Overwrite(item, m, t, lock_seconds) ==
    LET base == [item EXCEPT !.job = ClaimUpdate(item.job, t, lock_seconds),
                             !.imagery_source = m.imagery_source]
    IN IF m.imagery_source = "mapbox"
       THEN [base EXCEPT !.z = m.z, !.x = m.x, !.y = m.y, !.region = m.region]
       ELSE [base EXCEPT !.lat = m.lat, !.lon = m.lon, !.zoom = m.zoom]

\* UpdateExpression of claim_job: the lease fields, and the coordinate fields
\* of the message under if_not_exists
ClaimItem(item, m, t, lock_seconds) ==
    LET base == [item EXCEPT !.job = ClaimUpdate(item.job, t, lock_seconds),
                             !.imagery_source =
                                 IF @ = "NONE" THEN m.imagery_source ELSE @]
    IN IF m.imagery_source = "mapbox"
       THEN [base EXCEPT !.z = IfAbsent(@, m.z), !.x = IfAbsent(@, m.x),
                         !.y = IfAbsent(@, m.y),
                         !.region = IF m.region # NoRegion /\ @ = NoRegion
                                    THEN m.region ELSE @]
       ELSE [base EXCEPT !.lat = IfAbsent(@, m.lat), !.lon = IfAbsent(@, m.lon),
                         !.zoom = IfAbsent(@, m.zoom)]

\* the keys the two messages address
KeysOf(ms) == {GetTileId(ms[i]) : i \in DOMAIN ms}

\* claim_job for message i
KtClaim(i) ==
    /\ kt.pc = "on"
    /\ kt.last[i] # "CLAIMED"
    /\ kt.calls < MaxDeliveries
    /\ LET m == kt.m[i]
           k == GetTileId(m)
           item == kt.items[k]
       IN IF ~NumbersOk(m)
          THEN kt' = [kt EXCEPT !.last[i] = "ClientError", !.calls = @ + 1]
          ELSE IF ClaimCondition(item.job, now)
          THEN kt' = [kt EXCEPT !.items[k] = ClaimItem(item, m, now, LockSeconds),
                                !.first[k] = IF @ = 0 THEN i ELSE @,
                                !.last[i] = "CLAIMED", !.calls = @ + 1]
          ELSE kt' = [kt EXCEPT !.last[i] = ClaimFailedResult(item.job.status),
                                !.calls = @ + 1]
    /\ UNCHANGED <<now, job, run, pc, lv, deliveries, claims, hist, msg, rt, ft, fn, rc, ig>>

\* the invocation that claimed with message i fails: fail_job
KtFail(i) ==
    /\ kt.pc = "on"
    /\ kt.last[i] = "CLAIMED"
    /\ LET k == GetTileId(kt.m[i])
       IN kt' = [kt EXCEPT !.items[k].job = FailUpdate(@, now, "UNKNOWN_ERROR"),
                           !.last[i] = "failed"]
    /\ UNCHANGED <<now, job, run, pc, lv, deliveries, claims, hist, msg, rt, ft, fn, rc, ig>>

\* the invocation that claimed with message i succeeds: complete_job
KtComplete(i) ==
    /\ kt.pc = "on"
    /\ kt.last[i] = "CLAIMED"
    /\ LET k == GetTileId(kt.m[i])
       IN kt' = [kt EXCEPT !.items[k].job = CompleteUpdate(@, now),
                           !.last[i] = "completed"]
    /\ UNCHANGED <<now, job, run, pc, lv, deliveries, claims, hist, msg, rt, ft, fn, rc, ig>>

\* two messages of one run, no item yet
InitKey ==
    /\ InitTile
    /\ msg = TileMessage
    /\ rt = NoCall
    /\ ft = NoCall
    /\ fn = NoCall
    /\ \E m1 \in KeyMessages, m2 \in KeyMessages :
         kt = [pc |-> "on", m |-> <<m1, m2>>,
               items |-> [k \in KeysOf(<<m1, m2>>) |-> AbsentItem],
               first |-> [k \in KeysOf(<<m1, m2>>) |-> 0],
               last |-> <<"NONE", "NONE">>, calls |-> 0]
    /\ rc = NoCall
    /\ ig = NoCall

NextKey ==
    \/ Tick
    \/ \E i \in {1, 2} : KtClaim(i)
    \/ \E i \in {1, 2} : KtFail(i)
    \/ \E i \in {1, 2} : KtComplete(i)

SpecKey == InitKey /\ [][NextKey]_vars

\* ------------------------------------------ create_run (runs.py), one run_id
\* largest total_tiles handed to create_run
MaxTotal == 2

\* no item with the run_id
AbsentRun ==
    [status |-> "NONE", total_tiles |-> None, completed_tiles |-> None,
     failed_tiles |-> None, created_at_epoch |-> None]

\* items a run_id can have when create_run is called
RunItems ==
    [status : {"RUNNING", "COMPLETED"}, total_tiles : 0..MaxTotal,
     completed_tiles : 0..1, failed_tiles : 0..1, created_at_epoch : {0}]

\* the item create_run builds
NewRunItem(status, total_tiles, created_at) ==
    [status |-> status, total_tiles |-> total_tiles, completed_tiles |-> 0,
     failed_tiles |-> 0, created_at_epoch |-> created_at]

\* mutant: the put has no condition
CreateCondition_None(r) == TRUE

\* ConditionExpression of create_run: attribute_not_exists(run_id)
CreateCondition(r) == r = AbsentRun

\* calls of create_run and of safe_create_run at their entry
RunCalls ==
    [pc : {"call"}, name : {"create_run", "safe_create_run"},
     status : {"RUNNING", "CREATED"}, total_tiles : 0..MaxTotal,
     now_epoch : {1}, result : {"NONE"}]

\* create_run: the conditional put_item; safe_create_run turns the condition
\* failure into False and lets every other error through
CreateRun ==
    /\ fn.pc = "call"
    /\ fn.name \in {"create_run", "safe_create_run"}
    /\ \/ \* the store fails the call with another ClientError
          /\ fn' = [fn EXCEPT !.pc = "done", !.result = "ClientError"]
          /\ UNCHANGED run
       \/ \* the condition holds: the item is written
          /\ CreateCondition(run)
          /\ run' = NewRunItem(fn.status, fn.total_tiles, fn.now_epoch)
          /\ fn' = [fn EXCEPT !.pc = "done",
                              !.result = IF fn.name = "create_run" THEN "item" ELSE "True"]
       \/ \* ConditionalCheckFailedException: nothing is written
          /\ ~CreateCondition(run)
          /\ fn' = [fn EXCEPT !.pc = "done",
                              !.result = IF fn.name = "create_run"
                                         THEN "ConditionalCheckFailedException"
                                         ELSE "False"]
          /\ UNCHANGED run
    /\ UNCHANGED <<now, job, pc, lv, deliveries, claims, hist, msg, rt, ft, kt, rc, ig>>

InitRun ==
    /\ now = 0
    /\ job = AbsentJob
    /\ run \in RunItems \cup {AbsentRun}
    /\ pc = [w \in Workers |-> "idle"]
    /\ lv = [w \in Workers |-> InitLocal]
    /\ deliveries = 0
    /\ claims = <<>>
    /\ hist = [ckptDone |-> FALSE, faults |-> FALSE, racers |-> {}]
    /\ msg = TileMessage
    /\ rt = NoCall
    /\ ft = NoCall
    /\ fn \in RunCalls
    /\ kt = NoCall
    /\ rc = NoCall
    /\ ig = NoCall

NextRun == CreateRun

SpecRun == InitRun /\ [][NextRun]_vars

\* ------------------------------ update_run_counters (runs.py), several callers
\* number of calls followed, largest delta handed to a call
MaxCalls == 3
MaxDelta == 1

\* the deltas of a call
Deltas == 0..MaxDelta

\* a worker that is not in update_run_counters
NoCounterCall == [pc |-> "idle", completed_delta |-> 0, failed_delta |-> 0, result |-> "NONE"]

\* the row and the callers before the first call: the counters the row starts
\* with, the sum of the deltas of the calls that returned, the update_item
\* requests the store received, the calls entered
CounterCalls(r) ==
    [pc |-> "on", initial |-> r,
     applied |-> [completed_tiles |-> 0, failed_tiles |-> 0],
     writes |-> 0, entered |-> 0,
     call |-> [w \in Workers |-> NoCounterCall]]

\* a worker enters update_run_counters(completed_delta, failed_delta)
RcEnter(w) ==
    /\ rc.pc = "on"
    /\ rc.call[w].pc = "idle"
    /\ rc.entered < MaxCalls
    /\ \E c \in Deltas, f \in Deltas :
         rc' = [rc EXCEPT !.entered = @ + 1,
                          !.call[w] = [pc |-> "call", completed_delta |-> c,
                                       failed_delta |-> f, result |-> "NONE"]]
    /\ UNCHANGED <<now, job, run, pc, lv, deliveries, claims, hist, msg, rt, ft, fn, kt, ig>>

\* mutant: the update_item is sent for zero deltas too
RcUpdate_WriteAlways(w) ==
    /\ rc.pc = "on"
    /\ rc.call[w].pc = "call"
    /\ LET c == rc.call[w].completed_delta
           f == rc.call[w].failed_delta
       IN \/ /\ run' = UpdateRunCounters(run, c, f)
             /\ rc' = [rc EXCEPT !.writes = @ + 1,
                                 !.applied.completed_tiles = @ + c,
                                 !.applied.failed_tiles = @ + f,
                                 !.call[w] = [NoCounterCall EXCEPT !.result = "Attributes"]]
          \/ /\ rc' = [rc EXCEPT !.call[w] = [NoCounterCall EXCEPT !.result = "ClientError"]]
             /\ UNCHANGED run
    /\ UNCHANGED <<now, job, pc, lv, deliveries, claims, hist, msg, rt, ft, fn, kt, ig>>

\* update_run_counters: return {} for zero deltas, else one update_item with
\* ADD and no ConditionExpression, which the store applies or fails
RcUpdate(w) ==
    /\ rc.pc = "on"
    /\ rc.call[w].pc = "call"
    /\ LET c == rc.call[w].completed_delta
           f == rc.call[w].failed_delta
       IN IF c = 0 /\ f = 0
          THEN /\ rc' = [rc EXCEPT !.call[w] = [NoCounterCall EXCEPT !.result = "{}"]]
               /\ UNCHANGED run
          ELSE \/ /\ run' = UpdateRunCounters(run, c, f)
                  /\ rc' = [rc EXCEPT !.writes = @ + 1,
                                      !.applied.completed_tiles = @ + c,
                                      !.applied.failed_tiles = @ + f,
                                      !.call[w] = [NoCounterCall EXCEPT !.result = "Attributes"]]
               \/ /\ rc' = [rc EXCEPT !.call[w] = [NoCounterCall EXCEPT !.result = "ClientError"]]
                  /\ UNCHANGED run
    /\ UNCHANGED <<now, job, pc, lv, deliveries, claims, hist, msg, rt, ft, fn, kt, ig>>

\* a run in any status with any counters, no caller yet
InitCount ==
    /\ now = 0
    /\ job = AbsentJob
    /\ run \in RunItems
    /\ pc = [w \in Workers |-> "idle"]
    /\ lv = [w \in Workers |-> InitLocal]
    /\ deliveries = 0
    /\ claims = <<>>
    /\ hist = [ckptDone |-> FALSE, faults |-> FALSE, racers |-> {}]
    /\ msg = TileMessage
    /\ rt = NoCall
    /\ ft = NoCall
    /\ fn = NoCall
    /\ kt = NoCall
    /\ rc = CounterCalls(run)
    /\ ig = NoCall

NextCount ==
    \/ \E w \in Workers : RcEnter(w)
    \/ \E w \in Workers : RcUpdate(w)

SpecCount == InitCount /\ [][NextCount]_vars

\* ----------------------------------- _handle_failure (tile_processor.py)
\* One failure of a claimed tile: the exception is classified, fail_job
\* records it, the failed counter is incremented.

\* length of the error_message kept: str(exc)[:500]
MaxErrorMessage == 500

\* s[:n] of a text of the given length: the length of the slice
SliceLength(length, n) == IF length > n THEN n ELSE length

\* exceptions the try block of process_tile ends with; mentions_s3 says that
\* str(exc).lower() contains "s3"
Exceptions ==
    [type : {"ImageryFetchError"}, source : {"mapbox", "google"},
     status_code : FetchStatuses \cup {None}, attempts : {1}, mentions_s3 : BOOLEAN]
    \cup
    [type : {"AnalysisError", "TimeoutError", "S3UploadFailedError", "ClientError",
             "RuntimeError"},
     source : {"NONE"}, status_code : {None}, attempts : {0}, mentions_s3 : BOOLEAN]

\* "S3" in type(exc).__name__ or "s3" in str(exc).lower()
HasS3Signature(e) == e.type \in {"S3UploadFailedError"} \/ e.mentions_s3

\* mutant: the S3 signature is tested before the kinds of exception
ClassifyException_S3First(e) ==
    IF HasS3Signature(e) THEN "S3_PUT_FAILED"
    ELSE IF e.type = "ImageryFetchError" THEN FetchErrorCode(e)
    ELSE IF e.type = "AnalysisError" THEN "OPENAI_BAD_RESPONSE"
    ELSE IF e.type = "TimeoutError" THEN "DEADLINE_EXCEEDED"
    ELSE "UNKNOWN_ERROR"

\* _exception_to_error_code, the isinstance tests in their order
ClassifyException(e) ==
    IF e.type = "ImageryFetchError" THEN FetchErrorCode(e)
    ELSE IF e.type = "AnalysisError" THEN "OPENAI_BAD_RESPONSE"
    ELSE IF e.type = "TimeoutError" THEN "DEADLINE_EXCEEDED"
    ELSE IF HasS3Signature(e) THEN "S3_PUT_FAILED"
    ELSE "UNKNOWN_ERROR"

\* _handle_failure at its entry: the exception, the length of str(exc), and
\* what it computed and stored so far
FailureCalls ==
    [pc : {"classify"}, name : {"_handle_failure"}, exc : Exceptions,
     message_length : {0, MaxErrorMessage - 1, MaxErrorMessage, MaxErrorMessage + 1},
     error_code : {"NONE"}, error_message : {None}, stored_message : {None},
     result : {"NONE"}]

\* lines 284-285: the code and the message; a value that is no member of
\* ErrorCode ends the call with ValueError before any write
HfClassify ==
    /\ fn.pc = "classify"
    /\ fn.name = "_handle_failure"
    /\ LET code == ClassifyException(fn.exc)
       IN fn' = IF code = "ValueError"
                THEN [fn EXCEPT !.pc = "done", !.result = "ValueError"]
                ELSE [fn EXCEPT !.pc = "fail_job", !.error_code = code,
                                !.error_message =
                                    SliceLength(fn.message_length, MaxErrorMessage)]
    /\ UNCHANGED <<now, job, run, pc, lv, deliveries, claims, hist, msg, rt, ft, kt, rc, ig>>

\* lines 295-302: fail_job writes the code and the message, or raises and the
\* error is logged and swallowed
HfFailJob ==
    /\ fn.pc = "fail_job"
    /\ fn.name = "_handle_failure"
    /\ \/ /\ job' = FailUpdate(job, now, fn.error_code)
          /\ fn' = [fn EXCEPT !.pc = "update_failed",
                              !.stored_message = fn.error_message]
       \/ /\ fn' = [fn EXCEPT !.pc = "done", !.result = "swallowed"]
          /\ UNCHANGED job
    /\ UNCHANGED <<now, run, pc, lv, deliveries, claims, hist, msg, rt, ft, kt, rc, ig>>

\* lines 303-310: update_run_counters(failed_delta = 1), raising or not
HfBump ==
    /\ fn.pc = "update_failed"
    /\ fn.name = "_handle_failure"
    /\ \/ /\ run' = UpdateRunCounters(run, 0, 1)
          /\ fn' = [fn EXCEPT !.pc = "done", !.result = "None"]
       \/ /\ fn' = [fn EXCEPT !.pc = "done", !.result = "swallowed"]
          /\ UNCHANGED run
    /\ UNCHANGED <<now, job, pc, lv, deliveries, claims, hist, msg, rt, ft, kt, rc, ig>>

\* worker w1 has claimed the fresh row of the tile and its try block raised
InitFail ==
    /\ now = 0
    /\ job = ClaimUpdate(AbsentJob, 0, LockSeconds)
    /\ run = [completed_tiles |-> 0, failed_tiles |-> 0, total_tiles |-> 1]
    /\ pc = [w \in Workers |-> IF w = "w1" THEN "fail_job" ELSE "idle"]
    /\ lv = [w \in Workers |->
               IF w = "w1"
               THEN [InitLocal EXCEPT !.result = "CLAIMED", !.attempt = 1,
                                      !.claimed_at_epoch = 0]
               ELSE InitLocal]
    /\ deliveries = 1
    /\ claims = <<1>>
    /\ hist = [ckptDone |-> FALSE, faults |-> TRUE, racers |-> {}]
    /\ msg = TileMessage
    /\ rt = NoCall
    /\ ft = NoCall
    /\ fn \in FailureCalls
    /\ kt = NoCall
    /\ rc = NoCall
    /\ ig = NoCall

NextFail ==
    \/ HfClassify
    \/ HfFailJob
    \/ HfBump

SpecFail == InitFail /\ [][NextFail]_vars

\* ------------------------------------------ the ingest driver (start_run.py)
\* Runs of main on one manifest, whose run_id is a function of the manifest,
\* and workers that complete tiles already sent. A manifest is its data rows
\* after the header: a tile, or a row whose values are all empty.

\* rows of the longest manifest, runs of the driver, tiles the workers complete
MaxRows == 11
MaxRuns == 2
MaxProcessed == 1

\* len(batch) == 10: the entries of one send_message_batch
BatchSize == 10

Manifests == UNION {[1..n -> {"tile", "empty"}] : n \in 0..MaxRows}

\* the row numbers of the tiles of a manifest, in manifest order
RECURSIVE TileRows(_, _)
TileRows(rows, i) ==
    IF i > Len(rows) THEN <<>>
    ELSE IF rows[i] = "tile" THEN <<i>> \o TileRows(rows, i + 1)
    ELSE TileRows(rows, i + 1)

\* main at its entry, before create_run: arguments and locals of the run in
\* progress; over all runs: the messages the queue received (row numbers, in
\* order), the calls of set_total_tiles, the runs started, the tiles completed
IngestCalls ==
    [pc : {"create_run"}, rows : Manifests, dry_run : BOOLEAN,
     next : {1}, total : {0}, batch : {<<>>}, sent : {<<>>},
     set_calls : {0}, runs : {1}, processed : {0}, exit : {"NONE"}]

\* the run ends with an exit code or an uncaught exception
IgDone(exit) == [ig EXCEPT !.pc = "done", !.exit = exit]

\* mutant: a run_id that exists is taken as created
IgCreate_IgnoreExisting ==
    /\ ig.pc = "create_run"
    /\ \/ /\ ig' = IgDone("ClientError")
          /\ UNCHANGED run
       \/ /\ CreateCondition(run)
          /\ run' = NewRunItem("RUNNING", 0, now)
          /\ ig' = [ig EXCEPT !.pc = "rows"]
       \/ /\ ~CreateCondition(run)
          /\ ig' = [ig EXCEPT !.pc = "rows"]
          /\ UNCHANGED run
    /\ UNCHANGED <<now, job, pc, lv, deliveries, claims, hist, msg, rt, ft, fn, kt, rc>>

\* lines 180-186: create_run(total_tiles=0); its ClientError is not caught
IgCreate ==
    /\ ig.pc = "create_run"
    /\ \/ /\ ig' = IgDone("ClientError")
          /\ UNCHANGED run
       \/ /\ CreateCondition(run)
          /\ run' = NewRunItem("RUNNING", 0, now)
          /\ ig' = [ig EXCEPT !.pc = "rows"]
       \/ /\ ~CreateCondition(run)
          /\ ig' = IgDone("ConditionalCheckFailedException")
          /\ UNCHANGED run
    /\ UNCHANGED <<now, job, pc, lv, deliveries, claims, hist, msg, rt, ft, fn, kt, rc>>

\* lines 194-205: the next row of the manifest; an empty row is skipped, a
\* tile is counted and appended to the batch
IgRow ==
    /\ ig.pc = "rows"
    /\ IF ig.next > Len(ig.rows)
       THEN ig' = [ig EXCEPT !.pc = "last_batch"]
       ELSE IF ig.rows[ig.next] = "empty"
       THEN ig' = [ig EXCEPT !.next = @ + 1]
       ELSE ig' = [ig EXCEPT !.next = @ + 1, !.total = @ + 1,
                             !.batch = Append(@, ig.next),
                             !.pc = IF Len(ig.batch) + 1 = BatchSize
                                    THEN "send" ELSE "rows"]
    /\ UNCHANGED <<now, job, run, pc, lv, deliveries, claims, hist, msg, rt, ft, fn, kt, rc>>

\* _send_batch: send_message_batch takes every entry, or fails (the call
\* raises, or reports Failed entries and _send_batch raises RuntimeError)
\* with none or all but the last entry taken
SendBatch(after) ==
    \/ ig' = [ig EXCEPT !.sent = @ \o ig.batch, !.batch = <<>>, !.pc = after]
    \/ \E k \in {0, Len(ig.batch) - 1} :
         ig' = [IgDone("RuntimeError") EXCEPT !.sent = @ \o SubSeq(ig.batch, 1, k)]

\* mutant: the batch is not emptied after it was sent
IgSend_KeepBatch ==
    /\ ig.pc = "send"
    /\ IF ig.dry_run
       THEN ig' = [ig EXCEPT !.pc = "rows"]
       ELSE \/ ig' = [ig EXCEPT !.sent = @ \o ig.batch, !.pc = "rows"]
            \/ ig' = IgDone("RuntimeError")
    /\ UNCHANGED <<now, job, run, pc, lv, deliveries, claims, hist, msg, rt, ft, fn, kt, rc>>

\* lines 205-208: a full batch is sent unless --dry-run, and emptied
IgSend ==
    /\ ig.pc = "send"
    /\ IF ig.dry_run
       THEN ig' = [ig EXCEPT !.batch = <<>>, !.pc = "rows"]
       ELSE SendBatch("rows")
    /\ UNCHANGED <<now, job, run, pc, lv, deliveries, claims, hist, msg, rt, ft, fn, kt, rc>>

\* lines 210-211: the batch left over after the last row
IgLastBatch ==
    /\ ig.pc = "last_batch"
    /\ IF ig.batch # <<>> /\ ~ig.dry_run
       THEN SendBatch("set_total_tiles")
       ELSE ig' = [ig EXCEPT !.pc = "set_total_tiles"]
    /\ UNCHANGED <<now, job, run, pc, lv, deliveries, claims, hist, msg, rt, ft, fn, kt, rc>>

\* lines 213-217: set_total_tiles(total), an unconditional SET, then exit 0
IgSetTotal ==
    /\ ig.pc = "set_total_tiles"
    /\ \/ /\ run' = [run EXCEPT !.total_tiles = ig.total]
          /\ ig' = [IgDone("0") EXCEPT !.set_calls = @ + 1]
       \/ /\ ig' = IgDone("ClientError")
          /\ UNCHANGED run
    /\ UNCHANGED <<now, job, pc, lv, deliveries, claims, hist, msg, rt, ft, fn, kt, rc>>

\* the driver is run again on the same manifest
IgRunAgain ==
    /\ ig.pc = "done"
    /\ ig.runs < MaxRuns
    /\ \E dry_run \in BOOLEAN :
         ig' = [ig EXCEPT !.pc = "create_run", !.dry_run = dry_run, !.next = 1,
                          !.total = 0, !.batch = <<>>, !.runs = @ + 1,
                          !.exit = "NONE"]
    /\ UNCHANGED <<now, job, run, pc, lv, deliveries, claims, hist, msg, rt, ft, fn, kt, rc>>

\* a worker completes the tile of a message the queue holds: process_tile
\* ends with update_run_counters(completed_delta=1)
IgWorkerCompletes ==
    /\ ig.pc \notin {"off"}
    /\ ig.processed < Len(ig.sent)
    /\ ig.processed < MaxProcessed
    /\ run' = UpdateRunCounters(run, 1, 0)
    /\ ig' = [ig EXCEPT !.processed = @ + 1]
    /\ UNCHANGED <<now, job, pc, lv, deliveries, claims, hist, msg, rt, ft, fn, kt, rc>>

\* no Run item with the run_id of the manifest, the first run about to start
InitIngest ==
    /\ now = 0
    /\ job = AbsentJob
    /\ run = AbsentRun
    /\ pc = [w \in Workers |-> "idle"]
    /\ lv = [w \in Workers |-> InitLocal]
    /\ deliveries = 0
    /\ claims = <<>>
    /\ hist = [ckptDone |-> FALSE, faults |-> FALSE, racers |-> {}]
    /\ msg = TileMessage
    /\ rt = NoCall
    /\ ft = NoCall
    /\ fn = NoCall
    /\ kt = NoCall
    /\ rc = NoCall
    /\ ig \in IngestCalls

NextIngest ==
    \/ IgCreate
    \/ IgRow
    \/ IgSend
    \/ IgLastBatch
    \/ IgSetTotal
    \/ IgRunAgain
    \/ IgWorkerCompletes

SpecIngest == InitIngest /\ [][NextIngest]_vars

\* ------------------------------------------------------------ the handler's event
\* one invocation of _async_handler on an event of the queue: the event's
\* records, the record it takes, its result, and the records the queue deletes
\* once the invocation has ended
MaxRecords == 2

\* bodies of the records: the tile's message, text that is no JSON, and a JSON
\* object the message model rejects
EventBodies ==
    {TileMessage,
     [TileMessage EXCEPT !.json = FALSE],
     [TileMessage EXCEPT !.imagery_source = "bing"]}

\* Records of the event: none, or up to MaxRecords of them
EventRecords ==
    UNION {[1..k -> EventBodies] : k \in 0..MaxRecords}

\* the tile's row when the event arrives: no row, the row of a failed attempt
\* that had stored its checkpoint, the row of a completed tile
FailedRow ==
    FailUpdate(CheckpointUpdate(ClaimUpdate(AbsentJob, 0, LockSeconds)), 0,
               "OPENAI_BAD_RESPONSE")

CompletedRow == CompleteUpdate(ClaimUpdate(AbsentJob, 0, LockSeconds), 0)

EventRows == {AbsentJob, FailedRow, CompletedRow}

\* the run item that goes with the row
RunOf(row) ==
    [completed_tiles |-> IF row.status = "COMPLETED" THEN 1 ELSE 0,
     failed_tiles |-> IF row.status = "FAILED" THEN 1 ELSE 0,
     total_tiles |-> 1]

HandlerCalls(row) ==
    [pc : {"receive"}, name : {"_async_handler"}, records : EventRecords,
     taken : {{}}, result : {"NONE"}, deleted : {{}},
     start : {[job |-> row, run |-> RunOf(row)]}]

\* lines 54-61: no records ends the call with no_records; else the handler
\* takes records[0]
EvReceive ==
    /\ fn.pc = "receive"
    /\ fn.name = "_async_handler"
    /\ IF Len(fn.records) = 0
       THEN /\ fn' = [fn EXCEPT !.pc = "done", !.result = "no_records"]
            /\ UNCHANGED msg
       ELSE /\ fn' = [fn EXCEPT !.pc = "parse", !.taken = {1}]
            /\ msg' = fn.records[1]
    /\ UNCHANGED <<now, job, run, pc, lv, deliveries, claims, hist, rt, ft, kt, rc, ig>>

\* lines 71-92: the body of the record taken is parsed; a body that parses
\* goes to process_tile, any other ends the call with invalid_message
EvParse(w) ==
    /\ fn.pc = "parse"
    /\ fn.name = "_async_handler"
    /\ \A v \in Workers : pc[v] = "idle"
    /\ \/ Deliver(w)
       \/ Reject(w)

\* the status the handler returns, by the way its invocation ended
HandlerResult(end) ==
    CASE end = "ret_completed" -> "completed"
      [] end = "ret_skipped"   -> "skipped"
      [] end = "ret_invalid"   -> "invalid_message"
      [] OTHER                 -> "raised"

\* the queue's event source: a normal return deletes every record of the event
\* from the queue, a raise leaves all of them queued
Acknowledged(result, records, taken) ==
    IF result = "raised" THEN {} ELSE DOMAIN records

\* lines 84 and 94, and process_tile re-raising: the invocation ends
EvReturn(w) ==
    /\ fn.pc = "parse"
    /\ fn.name = "_async_handler"
    /\ pc[w] \in EndPcs
    /\ LET result == HandlerResult(pc[w])
       IN fn' = [fn EXCEPT !.pc = "done", !.result = result,
                           !.deleted = Acknowledged(result, fn.records, fn.taken)]
    /\ UNCHANGED <<now, job, run, pc, lv, deliveries, claims, hist, msg, rt, ft, kt, rc, ig>>

InitEvent ==
    /\ now = 0
    /\ job \in EventRows
    /\ run = RunOf(job)
    /\ pc = [w \in Workers |-> "idle"]
    /\ lv = [w \in Workers |-> InitLocal]
    /\ deliveries = 0
    /\ claims = IF job = AbsentJob THEN <<>> ELSE <<1>>
    /\ hist = [ckptDone |-> job.s3, faults |-> job.status = "FAILED", racers |-> {}]
    /\ msg = TileMessage
    /\ rt = NoCall
    /\ ft = NoCall
    /\ fn \in HandlerCalls(job)
    /\ kt = NoCall
    /\ rc = NoCall
    /\ ig = NoCall

NextEvent ==
    \/ EvReceive
    \/ \E w \in Workers : EvParse(w)
    \/ \E w \in Workers : ClaimWrite(w)
    \/ \E w \in Workers : ClaimRead(w)
    \/ \E w \in Workers : Download(w)
    \/ \E w \in Workers : Fetch(w)
    \/ \E w \in Workers : Upload(w)
    \/ \E w \in Workers : Checkpoint(w)
    \/ \E w \in Workers : DeadlineCheck(w)
    \/ \E w \in Workers : Analyze(w)
    \/ \E w \in Workers : Complete(w)
    \/ \E w \in Workers : BumpCompleted(w)
    \/ \E w \in Workers : FailJob(w)
    \/ \E w \in Workers : BumpFailed(w)
    \/ \E w \in Workers : EvReturn(w)

SpecEvent == InitEvent /\ [][NextEvent]_vars

\* ------------------------------------------------------------------ claims

\* worker w made a successful claim in its current invocation, has not yet
\* written a terminal status, and the lease it installed has not run out
HoldsLease(w) ==
    /\ pc[w] \in WorkPcs \cup {"fail_job"}
    /\ lv[w].result = "CLAIMED"
    /\ now < lv[w].claimed_at_epoch + LockSeconds

\* no invocation is in progress
Quiescent == \A w \in Workers : pc[w] = "idle"

\* C1: under any interleaving and any number of redeliveries the tile ends with
\* one terminal row and the run's counters are incremented exactly once for the
\* tile, in the direction of the final status.  Safety part: over the whole
\* execution the two counters together are incremented at most once.
C1_CountedOnce == run.completed_tiles + run.failed_tiles <= 1

\* C2: in no reachable state do two workers both hold a non-expired lease on
\* the same row (no second CLAIMED inside [t, lock_until_epoch) of a holder
\* that has not finished the job).
C2_OneLease ==
    \A w, v \in Workers : w # v => ~(HoldsLease(w) /\ HoldsLease(v))

\* C3: once the row has status COMPLETED no later operation of any worker
\* changes its status to another value.
C3_CompletedIsTerminal ==
    [][job.status = "COMPLETED" => job'.status = "COMPLETED"]_vars

\* C4: attempts never decreases; it changes only in a successful claim_job, by
\* exactly +1 and together with status = PROCESSING; every CLAIMED outcome
\* carries an attempt greater than all earlier ones, and attempts equals the
\* number of successful claims.
C4_AttemptsMonotone ==
    /\ [](/\ IfNotExists(job.attempts, 0) = Len(claims)
          /\ \A i, j \in 1..Len(claims) : i < j => claims[i] < claims[j])
    /\ [][job'.attempts # job.attempts =>
            /\ job'.attempts = IfNotExists(job.attempts, 0) + 1
            /\ job'.status = "PROCESSING"
            /\ \E w \in Workers :
                 /\ pc[w] = "claim"
                 /\ lv'[w].result = "CLAIMED"
                 /\ lv'[w].attempt = job'.attempts]_vars

C4_Witness == Len(claims) = 2 /\ job.attempts = 2 /\ job.status = "FAILED"

\* worker w's conditional update_item of claim_job is answered by the store in
\* this step (applied, or rejected by the condition)
ClaimAnswered(w) == pc[w] = "claim" /\ pc'[w] \notin {"claim", "idle", "raised"}

\* C5: a claim_job call at time now that the store answers mutates the row and
\* returns CLAIMED iff the row has no status, or status PENDING or FAILED, or
\* status PROCESSING with lock_until_epoch missing or < now; otherwise
\* (COMPLETED, or PROCESSING with lock_until_epoch >= now) the row is unchanged.
C5_ClaimIff ==
    [][\A w \in Workers : ClaimAnswered(w) =>
         LET claimable ==
               \/ job.status = "NONE"
               \/ job.status \in {"PENDING", "FAILED"}
               \/ /\ job.status = "PROCESSING"
                  /\ (job.lock_until_epoch = None \/ job.lock_until_epoch < now)
             blocked ==
               \/ job.status = "COMPLETED"
               \/ /\ job.status = "PROCESSING"
                  /\ job.lock_until_epoch # None
                  /\ job.lock_until_epoch >= now
         IN /\ claimable \/ blocked
            /\ claimable <=> (lv'[w].result = "CLAIMED" /\ job' # job)
            /\ blocked => (job' = job /\ lv'[w].result # "CLAIMED")]_vars

\* a claim was refused on a PROCESSING row whose lease ends exactly now
C5_Witness ==
    \E w \in Workers :
       /\ pc[w] = "claim_read"
       /\ job.status = "PROCESSING"
       /\ job.lock_until_epoch = now
       /\ job.last_claimed_at_epoch < now

\* worker w's claim_job returns after the failed condition in this step
ClaimRefused(w) == pc[w] = "claim_read" /\ pc'[w] \in EndPcs

\* C6 as stated: on predicate failure claim_job returns ALREADY_COMPLETED
\* exactly when the row's status is COMPLETED and LOCKED_BY_OTHER otherwise,
\* with no attempt, claimed_at_epoch or checkpoint and without any write.
C6_Original ==
    [][\A w \in Workers : ClaimRefused(w) =>
         /\ lv'[w].result = "ALREADY_COMPLETED" <=> job.status = "COMPLETED"
         /\ lv'[w].result = "LOCKED_BY_OTHER" <=> job.status # "COMPLETED"
         /\ lv'[w].attempt = None
         /\ lv'[w].claimed_at_epoch = None
         /\ ~lv'[w].ckpt
         /\ job' = job /\ run' = run]_vars

\* C6 amended: ALREADY_COMPLETED exactly when the follow-up status read
\* succeeds and shows COMPLETED (the status the row has at the time of that
\* read, whoever wrote it), LOCKED_BY_OTHER otherwise, a failed read included;
\* no attempt, claimed_at_epoch or checkpoint, and no write.
C6_ReadDecides ==
    [][\A w \in Workers : ClaimRefused(w) =>
         /\ lv'[w].result = "ALREADY_COMPLETED"
              <=> (job.status = "COMPLETED" /\ ~lv'[w].readErr)
         /\ lv'[w].result = "LOCKED_BY_OTHER"
              <=> (job.status # "COMPLETED" \/ lv'[w].readErr)
         /\ lv'[w].attempt = None
         /\ lv'[w].claimed_at_epoch = None
         /\ ~lv'[w].ckpt
         /\ job' = job /\ run' = run]_vars

\* the row became COMPLETED between the failed conditional write and the read
C6_Witness ==
    \E w \in Workers :
       /\ pc[w] = "ret_skipped"
       /\ lv[w].result = "ALREADY_COMPLETED"
       /\ ~lv[w].sawCompleted

\* C7: a delivery that finds the row COMPLETED gets ALREADY_COMPLETED, writes
\* nothing, issues no fetch, upload or vision call, and returns "skipped": the
\* invocation is in claim_job or has returned skipped (a failed status read,
\* after which it raises, is left aside).
C7_DuplicateSkipped ==
    \A w \in Workers : lv[w].sawCompleted =>
       \/ pc[w] = "claim_read"
       \/ pc[w] = "ret_skipped" /\ lv[w].result = "ALREADY_COMPLETED"
       \/ pc[w] = "raised" /\ lv[w].readErr

\* w and v raced for the fresh key (both were in claim_job while the row did
\* not exist) and both claim_job calls have returned
Raced(w, v) ==
    /\ w # v
    /\ {w, v} \subseteq hist.racers
    /\ lv[w].result # "NONE" /\ lv[v].result # "NONE"

\* w obtained the first claim of the row
FirstClaim(w) == lv[w].result = "CLAIMED" /\ lv[w].attempt = 1

C9_CheckpointResumed ==
    /\ [](\A w \in Workers : lv[w].afterCkpt =>
            /\ lv[w].result = "CLAIMED"
            /\ lv[w].ckpt
            /\ pc[w] \notin {"fetch", "upload", "checkpoint_s3"})
    /\ [][\A w \in Workers : (pc[w] = "claim" /\ lv'[w].afterCkpt) =>
            pc'[w] = "download"]_vars

\* a second attempt resumed from the checkpoint and got past the download
C9_Witness ==
    \E w \in Workers :
       /\ lv[w].afterCkpt
       /\ lv[w].attempt = 2
       /\ pc[w] = "analyze"
       /\ hist.faults

\* C10: a LOCKED_BY_OTHER outcome makes process_tile raise at once: the
\* invocation never enters the failure path, writes neither the row nor the
\* run counters, and ends raised.
C10_LockedRaises ==
    /\ [](\A w \in Workers : lv[w].result = "LOCKED_BY_OTHER" => pc[w] = "raised")
    /\ [][\A w \in Workers :
            ((lv[w].result = "LOCKED_BY_OTHER" \/ lv'[w].result = "LOCKED_BY_OTHER")
               /\ pc'[w] # pc[w])
            => (job' = job /\ run' = run)]_vars

C10_Witness ==
    \E w \in Workers :
       /\ lv[w].result = "LOCKED_BY_OTHER"
       /\ pc[w] = "raised"
       /\ job.status = "PROCESSING"

\* ------------------------------------------------- failure path and counters

\* the stages of process_tile inside its try block
StagePcs == WorkPcs \cup {"update_counters"}

\* worker w takes a step of its invocation other than an abrupt halt
Steps(w) == pc'[w] # pc[w] /\ pc'[w] # "idle"

\* C12: an error raised in any work stage after a successful claim sends the
\* invocation into the failure path: fail_job with the error's code, then the
\* failed_tiles update, then the original error is raised to the caller; when
\* fail_job raises, the counter update is skipped, and an error of fail_job or
\* of the counter update never replaces the original one.
C12_FailurePath ==
    /\ [](\A w \in Workers :
            /\ pc[w] \in {"fail_job", "update_failed"} =>
                 (lv[w].result = "CLAIMED" /\ lv[w].exc # "NONE")
            /\ (pc[w] = "raised" /\ lv[w].result = "CLAIMED") => lv[w].exc # "NONE")
    /\ [][\A w \in Workers :
            /\ (pc[w] \in StagePcs /\ lv'[w].exc # lv[w].exc /\ Steps(w)) =>
                 (pc'[w] = "fail_job" /\ job' = job /\ run' = run)
            /\ (pc[w] = "fail_job" /\ Steps(w)) =>
                 /\ lv'[w].exc = lv[w].exc
                 /\ run' = run
                 /\ \/ /\ pc'[w] = "update_failed"
                       /\ job' = FailUpdate(job, now, ExceptionToErrorCode(lv[w].exc))
                    \/ pc'[w] = "raised" /\ job' = job
            /\ (pc[w] = "update_failed" /\ Steps(w)) =>
                 /\ lv'[w].exc = lv[w].exc
                 /\ pc'[w] = "raised"
                 /\ job' = job
                 /\ run' \in {run, UpdateRunCounters(run, 0, 1)}]_vars

\* the vision-model call failed: the row is FAILED with its code, the failure
\* is counted and the AnalysisError is raised to the caller
C12_Witness ==
    \E w \in Workers :
       /\ pc[w] = "raised"
       /\ lv[w].result = "CLAIMED"
       /\ lv[w].exc = "AnalysisError"
       /\ job.status = "FAILED"
       /\ job.error_code = "OPENAI_BAD_RESPONSE"
       /\ run.failed_tiles = 1

\* C13: a counter is incremented only by an invocation whose terminal write
\* has succeeded just before: the completed_tiles update is reached only by a
\* successful complete_job write, the failed_tiles update only by a successful
\* fail_job write (a failing fail_job goes past it), and each write is followed
\* by at most one increment; a counter above zero has its kind of terminal
\* write behind it in the row.
C13_BumpAfterWrite ==
    /\ [](/\ run.completed_tiles > 0 => (job.finished_at_epoch # None /\ job.s3)
          /\ run.failed_tiles > 0 => job.error_code # "NONE")
    /\ [][/\ run'.completed_tiles # run.completed_tiles =>
               \E w \in Workers :
                  pc[w] = "update_counters" /\ pc'[w] = "ret_completed"
          /\ run'.failed_tiles # run.failed_tiles =>
               \E w \in Workers :
                  pc[w] = "update_failed" /\ pc'[w] = "raised"
          /\ \A w \in Workers :
               /\ (pc'[w] = "update_counters" /\ pc[w] # "update_counters") =>
                    /\ pc[w] = "complete_job"
                    /\ job' = CompleteUpdate(job, now)
                    /\ job'.status = "COMPLETED"
               /\ (pc'[w] = "update_failed" /\ pc[w] # "update_failed") =>
                    /\ pc[w] = "fail_job"
                    /\ job' = FailUpdate(job, now, ExceptionToErrorCode(lv[w].exc))
                    /\ job'.status = "FAILED"]_vars

\* fail_job raised after a stage error: the invocation ends without a count
C13_Witness ==
    \E w \in Workers :
       /\ pc[w] = "raised"
       /\ lv[w].exc = "ImageryFetchError"
       /\ job.status = "PROCESSING"
       /\ job.error_code = "NONE"
       /\ run.failed_tiles = 0

\* C14: once total_tiles is final, completed_tiles + failed_tiles never
\* exceeds it, whatever the schedule of workers, failures and redeliveries.
C14_WithinTotal ==
    run.completed_tiles + run.failed_tiles <= run.total_tiles

\* C15: the two counters never decrease and are never negative; every update
\* of the Run row by a worker adds exactly 1 to exactly one of them and leaves
\* the other, and total_tiles, alone.
C15_CountersMonotone ==
    /\ [](run.completed_tiles >= 0 /\ run.failed_tiles >= 0)
    /\ [][run' # run =>
            /\ run'.total_tiles = run.total_tiles
            /\ \/ /\ run'.completed_tiles = run.completed_tiles + 1
                  /\ run'.failed_tiles = run.failed_tiles
               \/ /\ run'.failed_tiles = run.failed_tiles + 1
                  /\ run'.completed_tiles = run.completed_tiles]_vars

\* the completed count is added while a failure is already counted
C15_Witness ==
    /\ run.completed_tiles = 1
    /\ run.failed_tiles = 1
    /\ \E w \in Workers : pc[w] = "ret_completed"

\* C16: the vision-model call is never in progress in an invocation whose
\* remaining time was below MIN_REMAINING_MS_FOR_OPENAI when the call started.
C16_BudgetRespected ==
    \A w \in Workers :
       pc[w] = "analyze" =>
          (lv[w].budget = None \/ lv[w].budget >= MIN_REMAINING_MS_FOR_OPENAI)

\* ------------------------------------------------------------ poison messages

\* the body is not JSON or breaks a constraint of the message: unknown
\* imagery_source, run_id or source missing, z/x/y missing for mapbox or
\* lat/lon for google, z or zoom outside [0, 22], x or y negative, lat outside
\* [-90, 90], lon outside [-180, 180]
Poison ==
    \/ ~msg.json
    \/ ~msg.has_run_source
    \/ msg.imagery_source \notin {"mapbox", "google"}
    \/ msg.imagery_source = "mapbox" /\ Absent \in {msg.z, msg.x, msg.y}
    \/ msg.imagery_source = "google" /\ Absent \in {msg.lat, msg.lon}
    \/ msg.z # Absent /\ (msg.z < 0 \/ msg.z > 22)
    \/ msg.zoom # Absent /\ (msg.zoom < 0 \/ msg.zoom > 22)
    \/ msg.x # Absent /\ msg.x < 0
    \/ msg.y # Absent /\ msg.y < 0
    \/ msg.lat # Absent /\ (msg.lat < 0 - 90 \/ msg.lat > 90)
    \/ msg.lon # Absent /\ (msg.lon < 0 - 180 \/ msg.lon > 180)

\* C11: a delivery of a body that is not JSON or breaks a message constraint
\* is acknowledged with status invalid_message: the handler never raises for
\* it, never reaches claim_job and writes neither the TileJobs row nor the Run.
C11_PoisonAcknowledged ==
    Poison =>
       /\ \A w \in Workers : pc[w] \in {"idle", "ret_invalid"}
       /\ job = AbsentJob
       /\ run.completed_tiles = 0 /\ run.failed_tiles = 0
       /\ claims = <<>>
       /\ (deliveries > 0 /\ Quiescent) => ~hist.faults

\* a google message without lon was delivered and acknowledged as invalid
C11_Witness ==
    /\ msg.json /\ msg.has_run_source
    /\ msg.imagery_source = "google"
    /\ msg.lat = LAT_MAX /\ msg.lon = Absent
    /\ \E w \in Workers : pc[w] = "ret_invalid"

\* ------------------------------------------------------------ the retry engine

\* C17: with a deadline set, a backoff sleep that begins ends no later than
\* deadline_epoch - min_time_for_attempt_ms/1000; when now + sleep +
\* min_time_for_attempt_ms/1000 > deadline_epoch the engine raises
\* DeadlineExceededError instead of sleeping, whether the sleep length is the
\* fixed backoff or comes from Retry-After.
C17_NoSleepPastDeadline ==
    /\ []((rt.pc = "sleep" /\ rt.deadline_epoch # None /\ rt.sleep_for.kind = "num") =>
            (rt.clock + rt.sleep_for.val) * 1000
               <= rt.deadline_epoch * 1000 - rt.min_time_for_attempt_ms)
    /\ [][/\ (rt.pc = "sleep" /\ rt'.sleeps # rt.sleeps /\ rt.deadline_epoch # None) =>
               rt'.clock * 1000 <= rt.deadline_epoch * 1000 - rt.min_time_for_attempt_ms
          /\ (/\ rt.pc = "backoff"
              /\ rt.deadline_epoch # None
              /\ rt'.sleep_for.kind = "num"
              /\ (rt.clock + rt'.sleep_for.val) * 1000 + rt.min_time_for_attempt_ms
                   > rt.deadline_epoch * 1000) =>
               /\ rt'.pc = "done"
               /\ rt'.outcome = "DeadlineExceededError"
               /\ rt'.sleeps = rt.sleeps
               /\ rt'.clock = rt.clock]_vars

\* a sleep asked for by Retry-After was refused where the fixed backoff would
\* have fitted
C17_Witness ==
    /\ rt.pc = "done"
    /\ rt.outcome = "DeadlineExceededError"
    /\ rt.retry_after = [kind |-> "num", val |-> 3]
    /\ rt.sleep_for.val = 3
    /\ rt.attempt = 1 /\ rt.sleeps = 0
    /\ rt.min_time_for_attempt_ms = 2000
    /\ (rt.clock + rt.backoff_base) * 1000 + rt.min_time_for_attempt_ms
          <= rt.deadline_epoch * 1000

\* C18: a call with max_retries >= 1 ends in a returned response,
\* RetryExhaustedError, DeadlineExceededError or a transport exception; when
\* all max_retries attempts were answered with a retryable status it has
\* issued exactly max_retries requests and max_retries - 1 sleeps and raises
\* RetryExhaustedError with the last response and attempts = max_retries.
C18_ExhaustsOrEnds ==
    (rt.pc = "done" /\ rt.max_retries >= 1) =>
       /\ rt.outcome \in {"returned", "RetryExhaustedError",
                          "DeadlineExceededError", "RequestException"}
       /\ rt.retried = rt.max_retries => rt.outcome = "RetryExhaustedError"
       /\ rt.outcome = "RetryExhaustedError" =>
            /\ rt.requests = rt.max_retries
            /\ rt.sleeps = rt.max_retries - 1
            /\ rt.attempt = rt.max_retries
            /\ rt.last_response = rt.status

\* C19: the response returned is that of the first attempt whose status is not
\* in {429, 500, 502, 503, 504}: every earlier attempt was answered with a
\* retryable status, nothing is requested or slept after it, and a retryable
\* status is never returned.
C19_FirstNonRetryableReturned ==
    /\ [](rt.outcome = "returned" =>
            /\ rt.status \notin {429, 500, 502, 503, 504}
            /\ rt.requests = rt.attempt
            /\ rt.retried = rt.attempt - 1
            /\ rt.sleeps = rt.attempt - 1)
    /\ [][/\ (rt.pc = "response" /\ rt.status \notin {429, 500, 502, 503, 504}) =>
               rt' = [rt EXCEPT !.pc = "done", !.outcome = "returned"]
          /\ (rt.pc = "response" /\ rt.status \in {429, 500, 502, 503, 504}) =>
               (rt'.outcome # "returned" /\ rt'.pc # "done")
          /\ rt.pc = "done" => rt' = rt]_vars

\* a 404 is returned by the second attempt, after a 429
C19_Witness ==
    /\ rt.outcome = "returned"
    /\ rt.status = 404
    /\ rt.attempt = 2
    /\ rt.last_response = 429

\* ------------------------------------------------------------ the imagery fetch

\* C20: when the provider answers 503 on every attempt and the invocation's
\* budget is too small for the next backoff, the fetch does not begin that
\* sleep but aborts with a deadline error, and the row becomes FAILED with
\* error_code DEADLINE_EXCEEDED.
C20_FetchStopsAtDeadline ==
    /\ (ft.pc = "sleep" /\ ft.only503) =>
          ft.clock + ft.sleep_for <= ft.budget_end
    /\ (/\ ft.pc = "done" /\ ft.only503
        /\ ft.requests > 0
        /\ ft.clock > ft.budget_end
        /\ job.status = "FAILED") =>
          job.error_code = "DEADLINE_EXCEEDED"

\* ------------------------------------------------------------ the error codes

\* C21: for every provider and every integer status, error_code_from_http_status
\* returns a member of the taxonomy and never fails: P_429 for 429, P_5XX for
\* 500..599, P_BAD_REQUEST for 400, P_4XX for the other 4xx, else UNKNOWN_ERROR.
C21_TotalOnProviders ==
    (fn.pc = "done" /\ fn.name = "error_code_from_http_status") =>
        LET s == fn.status_code
            P == SourceUpper(fn.source)
        IN /\ fn.result \in ErrorCodes
           /\ fn.result =
                 (IF s = 429 THEN P \o "_429"
                  ELSE IF 500 <= s /\ s < 600 THEN P \o "_5XX"
                  ELSE IF s = 400 THEN P \o "_BAD_REQUEST"
                  ELSE IF 400 < s /\ s < 500 THEN P \o "_4XX"
                  ELSE "UNKNOWN_ERROR")

\* ------------------------------------------------------------ the TileJob key

\* v (in units of 10^-7) rounded to six decimals, as a signed count of 10^-6
RoundedValue(v) == IF v < 0 THEN 0 - RoundedMagnitude(v) ELSE RoundedMagnitude(v)

\* two messages differ at most in region, in provenance, in digits of lat and
\* lon beyond the sixth decimal, or in zoom omitted versus the default
SameTile(a, b) ==
    /\ a.imagery_source = b.imagery_source
    /\ IF a.imagery_source = "mapbox"
       THEN a.z = b.z /\ a.x = b.x /\ a.y = b.y
       ELSE /\ RoundedValue(a.lat) = RoundedValue(b.lat)
            /\ RoundedValue(a.lon) = RoundedValue(b.lon)
            /\ GetZoom(a) = GetZoom(b)

\* the coordinate and region fields a claim with message m stores on a fresh item
StoredBy(m) ==
    [imagery_source |-> m.imagery_source,
     z |-> IF m.imagery_source = "mapbox" THEN m.z ELSE Absent,
     x |-> IF m.imagery_source = "mapbox" THEN m.x ELSE Absent,
     y |-> IF m.imagery_source = "mapbox" THEN m.y ELSE Absent,
     lat |-> IF m.imagery_source = "google" THEN m.lat ELSE Absent,
     lon |-> IF m.imagery_source = "google" THEN m.lon ELSE Absent,
     zoom |-> IF m.imagery_source = "google" THEN m.zoom ELSE Absent,
     region |-> IF m.imagery_source = "mapbox" THEN m.region ELSE NoRegion]

\* messages that name the same tile have the same tile_id
C22_SameTileSameKey ==
    kt.pc = "on" => (SameTile(kt.m[1], kt.m[2]) => GetTileId(kt.m[1]) = GetTileId(kt.m[2]))

\* every claim of a valid message is decided by the row: none ends in a store error
C22_ClaimsDecided ==
    kt.pc = "on" => \A i \in {1, 2} : kt.last[i] # "ClientError"

\* the fields on the row are those of the first successful claim
C22_FirstClaimStored ==
    kt.pc = "on" =>
        \A k \in DOMAIN kt.items :
            kt.first[k] # 0 =>
                [f \in DOMAIN StoredBy(kt.m[1]) |-> kt.items[k][f]]
                    = StoredBy(kt.m[kt.first[k]])

\* C22: the key is derived from the numeric coordinate fields only; two
\* messages of one run that name the same tile (differing in region, in
\* provenance, in lat/lon digits that round to the same six-decimal value, or in
\* zoom omitted versus 18) address one row and converge to one outcome, and the
\* coordinate and region fields on the row are those of the first successful claim.
C22_OneKeyOneRow ==
    /\ C22_SameTileSameKey
    /\ C22_ClaimsDecided
    /\ C22_FirstClaimStored

\* ------------------------------------------------------------------ the Run row

\* C23: create_run writes the Run row (counters zero, the given total_tiles)
\* only if the run_id has no row; if it has one the call fails with the
\* condition error and the row is unchanged; safe_create_run returns True on
\* creation, False on that failure and re-raises every other error.
C23_CreateOnlyIfAbsent ==
    [][(fn.pc = "call" /\ fn'.pc = "done"
        /\ fn.name \in {"create_run", "safe_create_run"}) =>
          /\ run' # run =>
               /\ run = AbsentRun
               /\ run' = NewRunItem(fn.status, fn.total_tiles, fn.now_epoch)
               /\ run'.completed_tiles = 0 /\ run'.failed_tiles = 0
               /\ fn'.result \in {"item", "True"}
          /\ run # AbsentRun =>
               /\ run' = run
               /\ fn'.result \in {"ConditionalCheckFailedException", "False", "ClientError"}
          /\ fn.name = "create_run" =>
               /\ fn'.result \in {"item", "ConditionalCheckFailedException", "ClientError"}
               /\ fn'.result = "item" <=> run' # run
               /\ fn'.result = "ConditionalCheckFailedException" => run # AbsentRun
          /\ fn.name = "safe_create_run" =>
               /\ fn'.result \in {"True", "False", "ClientError"}
               /\ fn'.result = "True" <=> run' # run
               /\ fn'.result = "False" => (run # AbsentRun /\ run' = run)]_vars

\* safe_create_run found a row with counters and returned False
C23_Witness ==
    /\ fn.pc = "done" /\ fn.name = "safe_create_run" /\ fn.result = "False"
    /\ run.status = "COMPLETED" /\ run.completed_tiles = 1

\* ------------------------------------------------------------ lease ownership

\* worker w made the latest successful claim, has not yet written a terminal
\* status, and the lease it installed has not run out
OwnsRow(w) ==
    /\ pc[w] \in WorkPcs \cup {"fail_job"}
    /\ lv[w].result = "CLAIMED"
    /\ lv[w].attempt = job.attempts
    /\ job.lock_until_epoch # None /\ now <= job.lock_until_epoch

\* C24: while one worker holds an unexpired lease on the row, every write to
\* the row (checkpoint_s3, complete_job, fail_job, a successful claim_job) is a
\* step of that worker.
C24_SingleWriter ==
    [][\A w \in Workers :
          (OwnsRow(w) /\ job' # job) => pc'[w] # pc[w]]_vars

\* ------------------------------------------------------------- the happy path

\* the order of the stages of an invocation on a fresh row
HappyOrder ==
    {<<"idle", "claim">>, <<"claim", "fetch">>, <<"fetch", "upload">>,
     <<"upload", "checkpoint_s3">>, <<"checkpoint_s3", "deadline">>,
     <<"deadline", "analyze">>, <<"analyze", "complete_job">>,
     <<"complete_job", "update_counters">>, <<"update_counters", "ret_completed">>,
     <<"ret_completed", "idle">>}

\* C25: a fresh valid message whose collaborators all succeed takes the row
\* through absent -> PROCESSING (attempts = 1) -> COMPLETED, runs the stages in
\* the order claim, fetch, upload, checkpoint_s3, deadline check, analyze,
\* complete_job, counter update, and adds 1 to completed_tiles and 0 to
\* failed_tiles.
C25_HappyPath ==
    /\ [](~hist.faults =>
            /\ \A w \in Workers : pc[w] \in EndPcs =>
                 /\ pc[w] = "ret_completed"
                 /\ job.status = "COMPLETED" /\ job.attempts = 1
                 /\ run.completed_tiles = 1 /\ run.failed_tiles = 0
            /\ run.failed_tiles = 0
            /\ run.completed_tiles > 0 => job.status = "COMPLETED")
    /\ [][~hist.faults' =>
            /\ \A w \in Workers : pc'[w] # pc[w] => <<pc[w], pc'[w]>> \in HappyOrder
            /\ job'.status # job.status =>
                 \/ (job.status = "NONE" /\ job'.status = "PROCESSING"
                     /\ job'.attempts = 1)
                 \/ (job.status = "PROCESSING" /\ job'.status = "COMPLETED")]_vars

\* ------------------------------------------------------------ the orphaned row

\* the row is PROCESSING, no terminal write was ever made on it, and no running
\* invocation has claimed it: its holder halted (or ended without a terminal write)
Orphaned ==
    /\ job.status = "PROCESSING"
    /\ job.finished_at_epoch = None
    /\ \A w \in Workers : lv[w].result # "CLAIMED" \/ pc[w] \in EndPcs \cup {"idle"}

CoordFields == {"z", "x", "y", "lat", "lon", "zoom"}

\* the attributes a claim with a message of that source sends
SentFields(m) ==
    IF m.imagery_source = "mapbox" THEN {"z", "x", "y"} ELSE {"lat", "lon", "zoom"}

\* C27: a successful claim_job at time now sets status PROCESSING, attempts to
\* (previous or 0) + 1, lock_until_epoch to now + lock_seconds,
\* last_claimed_at_epoch to now, started_at_epoch to now only if absent, writes
\* imagery_source, the coordinate fields and region only if absent, and
\* leaves the checkpoint, finished_at_epoch and error_code as they were.
C27_ClaimMutation ==
    [][\A i \in {1, 2} :
         (kt.pc = "on" /\ kt'.last[i] = "CLAIMED" /\ kt.last[i] # "CLAIMED") =>
            LET m == kt.m[i]
                k == GetTileId(m)
                old == kt.items[k]
                new == kt'.items[k]
            IN /\ new.job.status = "PROCESSING"
               /\ new.job.attempts = (IF old.job.attempts = None THEN 0
                                      ELSE old.job.attempts) + 1
               /\ new.job.lock_until_epoch = now + LockSeconds
               /\ new.job.last_claimed_at_epoch = now
               /\ new.job.started_at_epoch =
                     (IF old.job.started_at_epoch = None THEN now
                      ELSE old.job.started_at_epoch)
               /\ new.job.s3 = old.job.s3
               /\ new.job.finished_at_epoch = old.job.finished_at_epoch
               /\ new.job.error_code = old.job.error_code
               /\ new.imagery_source =
                     (IF old.imagery_source = "NONE" THEN m.imagery_source
                      ELSE old.imagery_source)
               /\ \A f \in CoordFields :
                     new[f] = (IF old[f] = Absent /\ f \in SentFields(m) THEN m[f]
                               ELSE old[f])
               /\ new.region =
                     (IF old.region = NoRegion /\ m.imagery_source = "mapbox"
                      THEN m.region ELSE old.region)
               /\ \A j \in DOMAIN kt.items : j # k => kt'.items[j] = kt.items[j]]_vars

\* the second message claimed, after the lease of the first ran out, a row that
\* keeps the latitude and the start time of the first claim
C27_Witness ==
    /\ kt.pc = "on"
    /\ kt.last[2] = "CLAIMED"
    /\ LET k == GetTileId(kt.m[2])
       IN /\ kt.first[k] = 1
          /\ kt.items[k].job.attempts = 2
          /\ kt.items[k].job.status = "PROCESSING"
          /\ kt.items[k].job.started_at_epoch < kt.items[k].job.last_claimed_at_epoch
          /\ kt.items[k].lat = kt.m[1].lat /\ kt.m[1].lat # kt.m[2].lat

\* --------------------------------------------- the retry engine, its attempts

\* C28: with a deadline_epoch set, no HTTP request is issued at a moment when
\* deadline_epoch - now < min_time_for_attempt_ms/1000: the check runs before
\* every attempt, the first included, and the call raises
\* DeadlineExceededError instead of sending.
C28_NoRequestNearDeadline ==
    [][/\ (rt.pc \in {"loop", "request"} /\ rt.deadline_epoch # None
             /\ rt'.requests # rt.requests) =>
            (rt.deadline_epoch - rt.clock) * 1000 >= rt.min_time_for_attempt_ms
       /\ (/\ rt.pc = "loop"
           /\ rt.attempt < rt.max_retries
           /\ rt.deadline_epoch # None
           /\ (rt.deadline_epoch - rt.clock) * 1000 < rt.min_time_for_attempt_ms) =>
            /\ rt'.pc = "done"
            /\ rt'.outcome = "DeadlineExceededError"
            /\ rt'.requests = rt.requests]_vars

\* the first attempt was refused with one second left where two are needed:
\* the call raised without a request
C28_Witness ==
    /\ rt.pc = "done"
    /\ rt.outcome = "DeadlineExceededError"
    /\ rt.attempt = 1
    /\ rt.requests = 0
    /\ rt.deadline_epoch = 1 /\ rt.clock = 0
    /\ rt.min_time_for_attempt_ms = 2000

\* C29: after the i-th retryable response (1 <= i < max_retries) the call
\* sleeps backoff_base * 2^(i-1) seconds, unless the response has a Retry-After
\* that parses as a number: then it sleeps exactly that many seconds; a
\* Retry-After that is empty or does not parse falls back to the exponential
\* value.
C29_SleepLength ==
    [][(/\ rt.pc = "sleep"
        /\ 1 <= rt.retried /\ rt.retried < rt.max_retries
        /\ rt.retry_after.kind \in {"none", "empty", "text", "num"}) =>
          /\ rt'.pc = "loop"
          /\ rt'.sleeps = rt.sleeps + 1
          /\ rt'.clock - rt.clock =
                (IF rt.retry_after.kind = "num" THEN rt.retry_after.val
                 ELSE rt.backoff_base * Pow(2, rt.retried - 1))]_vars

\* C30: every response with a retryable status is closed before the call
\* sleeps, raises DeadlineExceededError, raises RetryExhaustedError or starts
\* the next attempt: at most one response is unreleased at any time and none
\* is held across a sleep.
C30_ClosedBeforeSleep ==
    /\ rt.pc \in {"loop", "request", "backoff", "sleep", "exhausted"} => rt.open = 0
    /\ rt.pc = "response" => rt.open = 1
    /\ rt.pc = "done" =>
         rt.open = (IF rt.outcome = "returned" THEN 1 ELSE 0)

\* the call sleeps after its second retryable response, both closed
C30_Witness ==
    /\ rt.pc = "sleep"
    /\ rt.retried = 2
    /\ rt.requests = 2
    /\ rt.open = 0
\* ------------------------------------------------------------ the checkpoint

\* C31: a row that carries s3_bucket/s3_key refers to an object whose upload
\* completed earlier: checkpoint_s3 is issued only after upload_tile_image
\* returned and always before the vision-model call, and complete_job writes
\* the bucket/key of that upload or of the checkpoint the claim returned.
C31_CheckpointAfterUpload ==
    /\ [](/\ job.s3 => hist.ckptDone
          /\ \A w \in Workers :
               pc[w] \in {"deadline", "analyze", "complete_job"} => job.s3)
    /\ [][\A w \in Workers :
            /\ (pc'[w] = "checkpoint_s3" /\ pc[w] # "checkpoint_s3") =>
                 (pc[w] = "upload" /\ lv'[w].exc = "NONE")
            /\ (hist'.ckptDone /\ ~hist.ckptDone) =>
                 \E v \in Workers : pc[v] = "checkpoint_s3" /\ pc'[v] = "deadline"
            /\ (pc'[w] = "analyze" /\ pc[w] # "analyze") =>
                 (lv[w].ckpt \/ hist.ckptDone)
            /\ pc[w] = "complete_job" => job'.s3 = job.s3]_vars

\* an invocation that found the checkpoint of an earlier attempt downloaded the
\* object and completed the tile
C31_Witness ==
    \E w \in Workers :
      /\ pc[w] = "ret_completed"
      /\ lv[w].ckpt
      /\ lv[w].attempt = 2
      /\ job.status = "COMPLETED" /\ job.s3
\* ------------------------------------------------------------ the run counters

\* C32: update_run_counters with both deltas zero performs no store write and
\* returns an empty result; otherwise it adds both deltas atomically and
\* without a precondition, so after any interleaving of calls by several
\* workers completed_tiles and failed_tiles equal their initial values plus
\* the sum of all deltas applied.
C32_NoLostUpdate ==
    /\ [](rc.pc = "on" =>
            /\ run.completed_tiles =
                  rc.initial.completed_tiles + rc.applied.completed_tiles
            /\ run.failed_tiles = rc.initial.failed_tiles + rc.applied.failed_tiles
            /\ run.status = rc.initial.status
            /\ run.total_tiles = rc.initial.total_tiles)
    /\ [][\A w \in Workers :
            (rc.pc = "on" /\ rc.call[w].pc = "call" /\ rc'.call[w].pc = "idle") =>
               IF rc.call[w].completed_delta = 0 /\ rc.call[w].failed_delta = 0
               THEN /\ rc'.call[w].result = "{}"
                    /\ rc'.writes = rc.writes
                    /\ run' = run
               ELSE \/ /\ rc'.call[w].result = "Attributes"
                       /\ rc'.writes = rc.writes + 1
                       /\ run'.completed_tiles =
                             run.completed_tiles + rc.call[w].completed_delta
                       /\ run'.failed_tiles = run.failed_tiles + rc.call[w].failed_delta
                    \/ /\ rc'.call[w].result = "ClientError"
                       /\ run' = run]_vars

\* two calls with deltas are in progress together after a third was applied
C32_Witness ==
    /\ rc.pc = "on"
    /\ rc.writes = 1
    /\ rc.applied = [completed_tiles |-> 1, failed_tiles |-> 0]
    /\ \A w \in Workers :
         rc.call[w].pc = "call" /\ rc.call[w].failed_delta = 1
\* ------------------------------------------------------------ the failure path

\* C33: every error_code the failure path writes to a row is a member of the
\* taxonomy and is chosen by the first matching rule: ImageryFetchError with a
\* status -> the provider's code for the HTTP status; ImageryFetchError
\* without status -> {PROVIDER}_TIMEOUT; AnalysisError -> OPENAI_BAD_RESPONSE;
\* TimeoutError -> DEADLINE_EXCEEDED; an error with an S3 signature ->
\* S3_PUT_FAILED; anything else -> UNKNOWN_ERROR; the stored error_message
\* has at most 500 characters.
C33_ErrorTaxonomy ==
    (fn.pc = "update_failed" /\ fn.name = "_handle_failure") =>
       LET e == fn.exc
           provider == SourceUpper(e.source)
       IN /\ job.status = "FAILED"
          /\ job.error_code \in ErrorCodes
          /\ fn.stored_message <= 500
          /\ fn.stored_message = (IF fn.message_length <= 500
                                  THEN fn.message_length ELSE 500)
          /\ job.error_code =
               CASE e.type = "ImageryFetchError" /\ e.status_code = 429 ->
                      provider \o "_429"
                 [] e.type = "ImageryFetchError" /\ e.status_code = 400 ->
                      provider \o "_BAD_REQUEST"
                 [] e.type = "ImageryFetchError" /\ e.status_code \in 401..499
                      /\ e.status_code # 429 ->
                      provider \o "_4XX"
                 [] e.type = "ImageryFetchError" /\ e.status_code \in 500..599 ->
                      provider \o "_5XX"
                 [] e.type = "ImageryFetchError" /\ e.status_code = None ->
                      provider \o "_TIMEOUT"
                 [] e.type = "ImageryFetchError" /\ e.status_code \in 0..399 ->
                      "UNKNOWN_ERROR"
                 [] e.type = "AnalysisError" -> "OPENAI_BAD_RESPONSE"
                 [] e.type = "TimeoutError" -> "DEADLINE_EXCEEDED"
                 [] e.type \in {"S3UploadFailedError", "ClientError", "RuntimeError"}
                      /\ HasS3Signature(e) ->
                      "S3_PUT_FAILED"
                 [] OTHER -> "UNKNOWN_ERROR"

\* a fetch error of 503 whose message, longer than 500 characters, mentions
\* s3: the row has GOOGLE_5XX and a message of 500 characters
C33_Witness ==
    /\ fn.pc = "update_failed" /\ fn.name = "_handle_failure"
    /\ fn.exc.type = "ImageryFetchError"
    /\ fn.exc.source = "google" /\ fn.exc.status_code = 503
    /\ fn.exc.mentions_s3
    /\ fn.message_length = 501
    /\ fn.stored_message = 500
    /\ job.error_code = "GOOGLE_5XX"
\* ------------------------------------------------------------ the ingest driver

C40_SecondIngestFails ==
    /\ [](ig.pc # "off" =>
            \A i, j \in 1..Len(ig.sent) : i # j => ig.sent[i] # ig.sent[j])
    /\ [][(ig.pc = "create_run" /\ run # AbsentRun /\ ig'.pc # ig.pc) =>
            /\ ig'.pc = "done"
            /\ ig'.exit \in {"ConditionalCheckFailedException", "ClientError"}
            /\ ig'.sent = ig.sent
            /\ ig'.set_calls = ig.set_calls
            /\ run' = run]_vars

\* the second run ended at create_run; the row keeps the total of the first
\* run and the tile a worker completed, the queue has each tile once
C40_Witness ==
    /\ ig.pc = "done"
    /\ ig.runs = 2
    /\ ig.exit = "ConditionalCheckFailedException"
    /\ ig.set_calls = 1
    /\ Len(ig.sent) = 2
    /\ run.status = "RUNNING"
    /\ run.total_tiles = 2
    /\ run.completed_tiles = 1
\* ------------------------------------------------------------ complete_job

\* C35: complete_job has no precondition: it installs status COMPLETED with
\* finished_at_epoch, s3_bucket and s3_key whatever the row's status,
\* lock_until_epoch or lease holder (also when the caller's lease expired and
\* the row was claimed again by another worker), and leaves attempts,
\* lock_until_epoch, started_at_epoch, error_code and error_message unchanged.
C35_CompleteUnconditional ==
    [][\A w \in Workers :
         (pc[w] = "complete_job" /\ pc'[w] = "update_counters") =>
            /\ job'.status = "COMPLETED"
            /\ job'.finished_at_epoch = now
            /\ job'.s3
            /\ job'.attempts = job.attempts
            /\ job'.lock_until_epoch = job.lock_until_epoch
            /\ job'.started_at_epoch = job.started_at_epoch
            /\ job'.last_claimed_at_epoch = job.last_claimed_at_epoch
            /\ job'.error_code = job.error_code]_vars

\* a worker whose claim was the first completed the row while the worker of
\* the second claim holds the lease; the error of a failed attempt is kept
C35_Witness ==
    \E w, v \in Workers :
      /\ pc[w] = "update_counters"
      /\ lv[w].attempt = 1
      /\ pc[v] \in WorkPcs
      /\ lv[v].result = "CLAIMED" /\ lv[v].attempt = job.attempts
      /\ job.attempts >= 2
      /\ now <= job.lock_until_epoch
      /\ job.status = "COMPLETED"
      /\ job.error_code # "NONE"
\* C36: an imagery fetch issues at most max_retries requests per call: it
\* returns the bytes of the first 200 response, raises ImageryFetchError at
\* once on a status that is not retryable, retries on a retryable status or a
\* transport error after sleeping backoff_base * 2^(attempt-1) (no sleep after
\* the last attempt), and after max_retries failed attempts raises
\* ImageryFetchError with the status of the last attempt (None if that was a
\* transport error).
C36_FetchAttempts ==
    ft.pc # "off" =>
       /\ ft.requests <= ft.max_retries
       /\ ft.pc = "sleep" =>
            /\ ft.attempt < ft.max_retries
            /\ ft.sleep_for = ft.backoff_base * Pow(2, ft.attempt - 1)
       /\ ft.sleeps <= ft.requests
       /\ (ft.pc = "done" /\ ft.outcome = "bytes") =>
            (ft.requests = ft.attempt /\ ft.sleeps = ft.attempt - 1)
       /\ (ft.pc = "done" /\ ft.outcome = "raised") =>
            /\ ft.error.type = "ImageryFetchError"
            /\ ft.error.source = ft.source
            /\ \/ /\ ft.error.status_code \in FetchStatuses \ (RETRYABLE_STATUS \cup {200})
                  /\ ft.error.attempts = ft.attempt
                  /\ ft.requests = ft.attempt /\ ft.sleeps = ft.attempt - 1
               \/ /\ ft.error.status_code \in RETRYABLE_STATUS \cup {None}
                  /\ ft.error.status_code = ft.last_status
                  /\ ft.error.attempts = ft.max_retries
                  /\ ft.requests = ft.max_retries
                  /\ ft.sleeps = (IF ft.max_retries = 0 THEN 0 ELSE ft.max_retries - 1)
\* ------------------------------------------------------------ after complete_job

\* C37: within one invocation of process_tile, once complete_job has succeeded
\* the invocation never issues fail_job for the tile and never increments
\* failed_tiles, even when the update of the completed counter raises.
C37_NoFailAfterComplete ==
    [][\A w \in Workers :
         pc[w] = "update_counters" =>
            pc'[w] \in {"update_counters", "ret_completed", "idle"}]_vars
\* ------------------------------------------------------------ writes follow the claim

\* the invocation's position is at a store write of process_tile other than
\* the claim, or inside the failure handler
WritePcs == {"checkpoint_s3", "complete_job", "update_counters", "fail_job",
             "update_failed"}

\* C38: in every invocation of process_tile, checkpoint_s3, complete_job,
\* fail_job and update_run_counters are issued only after claim_job returned
\* CLAIMED in that invocation; a step of an invocation whose claim returned
\* ALREADY_COMPLETED or LOCKED_BY_OTHER, or raised, changes neither the TileJob
\* row nor the run item; so the row is either absent or has a status and
\* attempts >= 1.
C38_WritesOnlyAfterClaim ==
    /\ [](\A w \in Workers : pc[w] \in WritePcs => lv[w].result = "CLAIMED")
    /\ [](IF job.status = "NONE" THEN job = AbsentJob ELSE job.attempts >= 1)
    /\ [][\A w \in Workers :
            (pc'[w] # pc[w] /\ (job' # job \/ run' # run)) =>
               lv'[w].result = "CLAIMED"]_vars

\* one invocation was skipped on the COMPLETED row and another one's claim_job
\* raised a store error: the row and the run are as the completing invocation
\* left them
C38_Witness ==
    \E w, u \in Workers :
       /\ pc[w] = "ret_skipped" /\ lv[w].result = "ALREADY_COMPLETED"
       /\ pc[u] = "raised" /\ lv[u].result = "NONE" /\ lv[u].exc = "ClientError"
       /\ job.status = "COMPLETED" /\ job.attempts = 1
       /\ run.completed_tiles = 1 /\ run.failed_tiles = 0
\* ------------------------------------------------------------ one message per invocation

\* C39: the handler processes exactly one message per invocation: on an event
\* with no records it returns no_records and touches neither table; on an event
\* with k >= 1 records it parses and processes only the first one; and no
\* record of the event is deleted from the queue by a normal return unless the
\* invocation processed it or rejected it as poison.
C39_OneMessagePerInvocation ==
    fn.pc = "done" =>
       /\ Len(fn.records) = 0 =>
             /\ fn.result = "no_records"
             /\ job = fn.start.job /\ run = fn.start.run
             /\ deliveries = 0
       /\ Len(fn.records) >= 1 => fn.taken = {1} /\ deliveries = 1
       /\ fn.deleted \subseteq fn.taken
====
